---- MODULE Spec2Model ----
(***************************************************************************)
(* The highlighting iterator of crates/highlight/src/highlight.rs:         *)
(* HighlightIter::next and the layer list it merges (sort_key,             *)
(* sort_layers, insert_layer, emit_event), layer construction              *)
(* (HighlightIterLayer::new, intersect_ranges, injection_for_match) and    *)
(* local-variable tracking.  One action is one pass through the 'main      *)
(* loop of next(); a pass that ends in `continue 'main` leaves the call    *)
(* running, a pass that ends in `return` hands one item to the caller.     *)
(*                                                                         *)
(* The parser and the query cursor are not part of highlight.rs.  A        *)
(* layer's `captures` holds the captures the cursor has already decided    *)
(* on (all captures of the peeked node); the cursor chooses the following  *)
(* ones when the iterator asks for them (QueryCaptures), in the order      *)
(* tree-sitter yields them: by start byte, then by pattern index, over     *)
(* nodes of one tree (two nodes nest or are disjoint).                     *)
(***************************************************************************)
EXTENDS Integers, Sequences, FiniteSets, TLC

VARIABLES
    source,             \* HighlightIter.source
    language_name,      \* HighlightIter.language_name: the root configuration's name
    byte_offset,        \* HighlightIter.byte_offset
    cancellation_flag,  \* HighlightIter.cancellation_flag: None or Some(value of the atomic)
    layers,             \* HighlightIter.layers
    iter_count,         \* HighlightIter.iter_count
    next_event,         \* HighlightIter.next_event
    last_highlight_range, \* HighlightIter.last_highlight_range
    cursors,            \* Highlighter.cursors: number of query cursors in the free pool
    fuel,               \* captures the query cursors may still yield (bounds the document)
    nlayers,            \* layers built so far (bounds the document)
    returned,           \* the caller's view: what the latest pass of next() returned
    pending,            \* the caller's view: byte position of the event in next_event
    seen,               \* the caller's view: summary of the events returned so far
    calls,              \* the caller's view: calls counted around the cancellation
    query,              \* HighlightConfiguration.query of the configuration under test
    highlight_indices,  \* HighlightConfiguration.highlight_indices of that configuration
    answer,             \* what the latest call under test returned
    renderer,           \* HtmlRenderer
    rendering,          \* render(): its `highlights`, and the events it has consumed
    arguments           \* the arguments of the associated function under test

\* the fields of the iterator, of the configuration under test and of the
\* HTML renderer, and the arguments of a function called on its own
iter_vars == <<source, language_name, byte_offset, cancellation_flag, layers, iter_count,
               next_event, last_highlight_range, cursors, fuel, nlayers, returned,
               pending, seen, calls>>
config_vars == <<query, highlight_indices, answer>>
render_vars == <<renderer, rendering>>
call_vars == <<arguments>>

vars == <<source, language_name, byte_offset, cancellation_flag, layers, iter_count,
          next_event, last_highlight_range, cursors, fuel, nlayers, returned, pending,
          seen, calls, query, highlight_indices, answer, renderer, rendering,
          arguments>>

----------------------------------------------------------------------------
(* Bounds of the explored documents.                                       *)

\* length of the source in bytes
SourceLen == 3
\* length of the source of a document with local variables
LocalsSourceLen == 2
\* captures all query cursors of one document yield in total
MaxCaptures == 3
\* captures of a document with local variables
LocalsMaxCaptures == 5
\* captures of a document highlighted with a cancellation flag
MaxCapturesCancel == 2
\* layers built for one document, the root layer included
MaxLayers == 3
\* direct children of an injection.content node
MaxChildren == 1
\* content nodes one combined injection pattern matches
MaxContent == 1
\* captures on one node
MaxRun == 3
\* calls of next() finished before the caller sets the cancellation flag
MaxCallsBeforeCancel == 2
\* length of the source of a document of language "host"
InjectSourceLen == 2
\* captures of a document of language "host"
MaxCapturesInject == 3
\* capture names of a query under test
MaxNames == 2
\* parts of a capture name
MaxParts == 3
\* names a caller passes to configure
MaxRecognized == 2
\* parts of a name passed to configure
MaxRecognizedParts == 2
\* bytes of the sources rendered to HTML
MaxText == 3
\* bytes of one Source event rendered
MaxChunk == 2
\* HighlightStart events rendered
MaxStarts == 2
\* #set! properties of the injection pattern under test
MaxSettings == 3
\* captures of one match of that pattern
MaxMatchCaptures == 2
\* length of the source of a document of language "scopes"
ScopesSourceLen == 3
\* captures of a document of language "scopes"
ScopesMaxCaptures == 5
\* captures of a document of language "inherits"
InheritsMaxCaptures == 3
\* length of the source whose injection ranges are computed on their own
IntersectSourceLen == 3
\* ranges of the layer such an injection is found in
MaxParents == 2
\* content nodes of such an injection
MaxNodes == 2
\* source bytes and captures of a document with unnamed highlights
CountsSourceLen == 2
CountsMaxCaptures == 4
\* patterns in one of the three query strings of a configuration
MaxPatterns == 2
\* bytes of white space in front of a pattern
MaxPad == 1

\* highlight.rs:25
CANCELLATION_CHECK_INTERVAL == 100
\* usize::MAX (highlight.rs:300, 608, 663); only ever compared
USIZE_MAX == 2147483647

----------------------------------------------------------------------------
(* Option<T>, ranges, small helpers.                                       *)

None == <<>>
Some(x) == <<x>>
IsSome(o) == o # <<>>
Unwrap(o) == o[1]

Min(a, b) == IF a < b THEN a ELSE b
Last(s) == s[Len(s)]
Front(s) == SubSeq(s, 1, Len(s) - 1)
Range(s) == {s[i] : i \in DOMAIN s}

\* a byte range start..end as <<start, end>>
Start(r) == r[1]
End(r) == r[2]

\* the syntax nodes a tree over the source can have: non-empty byte ranges
Nodes == {r \in (0..Len(source)) \X (0..Len(source)) : r[1] < r[2]}

\* two nodes of one tree nest or are disjoint
Laminar(a, b) ==
    \/ End(a) <= Start(b)
    \/ End(b) <= Start(a)
    \/ (Start(a) <= Start(b) /\ End(b) <= End(a))
    \/ (Start(b) <= Start(a) /\ End(a) <= End(b))

\* &source[range] as text
Text(src, r) == SubSeq(src, Start(r) + 1, End(r))

\* Node::utf8_text(source).ok(): the text of a node as a string, None when
\* its bytes are not UTF-8 (the byte "0xFF" stands for such bytes)
utf8_text(src, r) ==
    LET text == Text(src, r)
    IN  IF \E i \in DOMAIN text : text[i] = "0xFF" THEN None
        ELSE CASE Len(text) = 0 -> Some("")
               [] Len(text) = 1 -> Some("a")
               [] Len(text) = 2 -> Some("aa")
               [] OTHER -> Some("aaa")

----------------------------------------------------------------------------
(* HighlightConfiguration.  A configuration is referred to by name, as the *)
(* layers refer to it by reference.  Pattern and capture indices are       *)
(* 0-based as in the code; At reads a Vec at such an index.                *)

At(vec, i) == vec[i + 1]

\* one pattern of the combined query: the capture names it binds, its
\* #set! properties (key, Option value) and whether it carries a negative
\* `local` property predicate
Pattern(caps, settings, neg_local) ==
    [captures |-> caps, settings |-> settings, non_local |-> neg_local]

\* outermost document language: two combined injections, one ordinary
\* injection, one highlight pattern
OuterConfig ==
    [language_name |-> "outer", language_ok |-> TRUE,
     capture_names |-> <<"injection.content", "keyword">>,
     patterns |-> <<
        Pattern(<<0>>, <<[key |-> "injection.language", value |-> Some("inner")],
                         [key |-> "injection.combined", value |-> None]>>, FALSE),
        Pattern(<<0>>, <<[key |-> "injection.combined", value |-> None],
                         [key |-> "injection.language", value |-> Some("inner")],
                         [key |-> "injection.include-children", value |-> None]>>, FALSE),
        Pattern(<<0>>, <<[key |-> "injection.language", value |-> Some("inner")],
                         [key |-> "injection.include-children", value |-> None]>>, FALSE),
        Pattern(<<1>>, <<>>, FALSE) >>,
     locals_pattern_index |-> 3, highlights_pattern_index |-> 3,
     highlight_indices |-> <<None, Some(0)>>]

\* an injected language with highlights only
InnerConfig ==
    [language_name |-> "inner", language_ok |-> TRUE,
     capture_names |-> <<"tag">>,
     patterns |-> << Pattern(<<0>>, <<>>, FALSE) >>,
     locals_pattern_index |-> 0, highlights_pattern_index |-> 0,
     highlight_indices |-> <<Some(1)>>]

\* a language whose ABI version the parser rejects (set_language fails)
BrokenConfig ==
    [language_name |-> "broken", language_ok |-> FALSE,
     capture_names |-> <<"tag">>,
     patterns |-> << Pattern(<<0>>, <<>>, FALSE) >>,
     locals_pattern_index |-> 0, highlights_pattern_index |-> 0,
     highlight_indices |-> <<Some(1)>>]

\* a language with local-variable tracking: scopes, definitions (with and
\* without a value, one pattern before and one after the reference
\* pattern), references, and two highlight patterns for identifiers, the
\* second one disabled on local variables
LocalsConfig ==
    [language_name |-> "locals", language_ok |-> TRUE,
     capture_names |-> <<"local.scope", "local.definition", "local.definition-value",
                         "local.reference", "variable", "variable.other">>,
     patterns |-> <<
        Pattern(<<0>>, <<>>, FALSE),
        Pattern(<<0>>, <<[key |-> "local.scope-inherits", value |-> Some("false")]>>, FALSE),
        Pattern(<<1, 2>>, <<>>, FALSE),
        Pattern(<<3>>, <<>>, FALSE),
        Pattern(<<1>>, <<>>, FALSE),
        Pattern(<<4>>, <<>>, FALSE),
        Pattern(<<5>>, <<>>, TRUE) >>,
     locals_pattern_index |-> 0, highlights_pattern_index |-> 5,
     highlight_indices |-> <<None, None, None, None, Some(0), Some(1)>>]

\* a small language with one pattern of every section, for documents
\* highlighted with a cancellation flag
MixedConfig ==
    [language_name |-> "mixed", language_ok |-> TRUE,
     capture_names |-> <<"injection.content", "local.reference", "keyword">>,
     patterns |-> <<
        Pattern(<<0>>, <<[key |-> "injection.language", value |-> Some("inner")]>>, FALSE),
        Pattern(<<0>>, <<[key |-> "injection.language", value |-> Some("broken")]>>, FALSE),
        Pattern(<<1>>, <<>>, FALSE),
        Pattern(<<2>>, <<>>, FALSE) >>,
     locals_pattern_index |-> 2, highlights_pattern_index |-> 3,
     highlight_indices |-> <<None, None, Some(0)>>]

\* a document language whose injection patterns name the language in every
\* way but a capture: by injection.parent, not at all (with only an
\* injection.language capture and no content, or with only a content
\* capture), by a name no caller knows, and by the name of a language the
\* parser rejects; and one highlight pattern
HostConfig ==
    [language_name |-> "host", language_ok |-> TRUE,
     capture_names |-> <<"injection.content", "injection.language", "keyword">>,
     patterns |-> <<
        Pattern(<<0>>, <<[key |-> "injection.parent", value |-> None]>>, FALSE),
        Pattern(<<1>>, <<>>, FALSE),
        Pattern(<<0>>, <<>>, FALSE),
        Pattern(<<0>>, <<[key |-> "injection.language", value |-> Some("unknown")]>>, FALSE),
        Pattern(<<0>>, <<[key |-> "injection.language", value |-> Some("broken")]>>, FALSE),
        Pattern(<<2>>, <<>>, FALSE) >>,
     locals_pattern_index |-> 5, highlights_pattern_index |-> 5,
     highlight_indices |-> <<None, None, Some(0)>>]

\* a language with inheriting local scopes, definitions, references and
\* two highlight patterns
ScopesConfig ==
    [language_name |-> "scopes", language_ok |-> TRUE,
     capture_names |-> <<"local.scope", "local.definition", "local.reference",
                         "variable", "function">>,
     patterns |-> <<
        Pattern(<<0>>, <<>>, FALSE),
        Pattern(<<1>>, <<>>, FALSE),
        Pattern(<<2>>, <<>>, FALSE),
        Pattern(<<3>>, <<>>, FALSE),
        Pattern(<<4>>, <<>>, FALSE) >>,
     locals_pattern_index |-> 0, highlights_pattern_index |-> 3,
     highlight_indices |-> <<None, None, None, Some(0), Some(1)>>]

\* a language whose local scopes are declared in every way: without the
\* local.scope-inherits property, with the property without a value, and
\* with the values "true", "false" and "no"; and one highlight pattern
InheritsConfig ==
    [language_name |-> "inherits", language_ok |-> TRUE,
     capture_names |-> <<"local.scope", "variable">>,
     patterns |-> <<
        Pattern(<<0>>, <<>>, FALSE),
        Pattern(<<0>>, <<[key |-> "local.scope-inherits", value |-> None]>>, FALSE),
        Pattern(<<0>>, <<[key |-> "local.scope-inherits", value |-> Some("true")]>>, FALSE),
        Pattern(<<0>>, <<[key |-> "local.scope-inherits", value |-> Some("false")]>>, FALSE),
        Pattern(<<0>>, <<[key |-> "local.scope-inherits", value |-> Some("no")]>>, FALSE),
        Pattern(<<1>>, <<>>, FALSE) >>,
     locals_pattern_index |-> 0, highlights_pattern_index |-> 5,
     highlight_indices |-> <<None, Some(0)>>]

\* a document language with an injection pattern and two highlight
\* patterns, the capture name of the second one recognized by no
\* configure() call (its highlight is None)
CountsConfig ==
    [language_name |-> "counts", language_ok |-> TRUE,
     capture_names |-> <<"injection.content", "keyword", "note">>,
     patterns |-> <<
        Pattern(<<0>>, <<[key |-> "injection.language", value |-> Some("inner")]>>, FALSE),
        Pattern(<<1>>, <<>>, FALSE),
        Pattern(<<2>>, <<>>, FALSE) >>,
     locals_pattern_index |-> 1, highlights_pattern_index |-> 1,
     highlight_indices |-> <<None, Some(0), None>>]

ConfigNames ==
    {"outer", "inner", "broken", "locals", "mixed", "host", "scopes", "inherits", "counts"}

Config(name) ==
    CASE name = "outer" -> OuterConfig
      [] name = "inner" -> InnerConfig
      [] name = "broken" -> BrokenConfig
      [] name = "locals" -> LocalsConfig
      [] name = "mixed" -> MixedConfig
      [] name = "host" -> HostConfig
      [] name = "scopes" -> ScopesConfig
      [] name = "inherits" -> InheritsConfig
      [] name = "counts" -> CountsConfig

\* the caller's injection_callback: language name -> Option<configuration>
injection_callback(name) ==
    IF name \in {"inner", "broken", "host"} THEN Some(name) ELSE None

pattern_count(config) == Len(config.patterns)

property_settings(config, pattern_index) == At(config.patterns, pattern_index).settings

\* the index of a capture name in query.capture_names(), if it is there
CaptureIndex(config, name) ==
    IF \E i \in DOMAIN config.capture_names : config.capture_names[i] = name
    THEN Some((CHOOSE i \in DOMAIN config.capture_names : config.capture_names[i] = name) - 1)
    ELSE None

injection_content_capture_index(config) == CaptureIndex(config, "injection.content")
injection_language_capture_index(config) == CaptureIndex(config, "injection.language")
local_scope_capture_index(config) == CaptureIndex(config, "local.scope")
local_def_capture_index(config) == CaptureIndex(config, "local.definition")
local_def_value_capture_index(config) == CaptureIndex(config, "local.definition-value")
local_ref_capture_index(config) == CaptureIndex(config, "local.reference")

non_local_variable_patterns(config) ==
    [i \in DOMAIN config.patterns |-> config.patterns[i].non_local]

\* the injection patterns carrying injection.combined: disabled in the main
\* query, the only ones enabled in the combined-injections query
CombinedPatterns(config) ==
    {p \in 0..(config.locals_pattern_index - 1) :
        \E i \in DOMAIN property_settings(config, p) :
            property_settings(config, p)[i].key = "injection.combined"}

combined_injections_query(config) ==
    IF CombinedPatterns(config) # {} THEN Some(CombinedPatterns(config)) ELSE None

\* the patterns the main query can still match
EnabledPatterns(config) == (0..(pattern_count(config) - 1)) \ CombinedPatterns(config)

----------------------------------------------------------------------------
(* Layers.                                                                 *)

\* a stream item of QueryCaptures: (match, capture_index); match.captures is
\* a list of (capture index, node); capture_index is 0-based
Item(pattern_index, captures, capture_index) ==
    [pattern_index |-> pattern_index, captures |-> captures, capture_index |-> capture_index]

Capture(item) == At(item.captures, item.capture_index)

\* LocalScope and the global scope every layer starts with
LocalScope(inherits, range, local_defs) ==
    [inherits |-> inherits, range |-> range, local_defs |-> local_defs]

LocalDef(name, value_range, highlight) ==
    [name |-> name, value_range |-> value_range, highlight |-> highlight]

\* faulty variant: the bottom scope ends with the first byte
GlobalScope_FirstByte == LocalScope(FALSE, <<0, 1>>, <<>>)

GlobalScope == LocalScope(FALSE, <<0, USIZE_MAX>>, <<>>)

\* HighlightIterLayer as built at the end of one round of new(); `cursor` is
\* where the query cursor stands (start byte and pattern of the last capture
\* it decided on, and the end of its node) and `tree` the nodes of the layer's tree seen so far that
\* reach beyond that byte
HighlightIterLayer(config, depth, ranges) ==
    [config |-> config, depth |-> depth, ranges |-> ranges,
     highlight_end_stack |-> <<>>, scope_stack |-> <<GlobalScope>>,
     captures |-> <<>>, cursor |-> [start |-> 0, pattern |-> 0, end |-> USIZE_MAX],
     tree |-> {}]

\* faulty variant: at one offset a start sorts before an end
KeyLess_StartsFirst(a, b) ==
    \/ a[1] < b[1]
    \/ a[1] = b[1] /\ a[2] /\ ~b[2]
    \/ a[1] = b[1] /\ a[2] = b[2] /\ a[3] < b[3]

\* (usize, bool, isize) tuples compare lexicographically, false < true
KeyLess(a, b) ==
    \/ a[1] < b[1]
    \/ a[1] = b[1] /\ ~a[2] /\ b[2]
    \/ a[1] = b[1] /\ a[2] = b[2] /\ a[3] < b[3]

\* faulty variant: the key looks at the next capture only, so a layer whose
\* captures are used up counts as finished while highlights are still open
sort_key_CapturesOnly(layer) ==
    IF layer.captures # <<>>
    THEN Some(<<Start(Capture(Head(layer.captures)).node), TRUE, 0 - layer.depth>>)
    ELSE None

sort_key(layer) ==
    LET depth == 0 - layer.depth
        next_start == IF layer.captures # <<>>
                      THEN Some(Start(Capture(Head(layer.captures)).node)) ELSE None
        next_end == IF layer.highlight_end_stack # <<>>
                    THEN Some(Last(layer.highlight_end_stack)) ELSE None
    IN  CASE IsSome(next_start) /\ IsSome(next_end) ->
                IF Unwrap(next_start) < Unwrap(next_end)
                THEN Some(<<Unwrap(next_start), TRUE, depth>>)
                ELSE Some(<<Unwrap(next_end), FALSE, depth>>)
          [] IsSome(next_start) /\ ~IsSome(next_end) -> Some(<<Unwrap(next_start), TRUE, depth>>)
          [] ~IsSome(next_start) /\ IsSome(next_end) -> Some(<<Unwrap(next_end), FALSE, depth>>)
          [] OTHER -> None

\* the inner loop of sort_layers: the last index i such that every layer in
\* 1..i has a key smaller than the front layer's
RECURSIVE SortScan(_, _, _)
SortScan(ls, key, i) ==
    IF i + 1 < Len(ls)
       /\ IsSome(sort_key(ls[i + 2]))
       /\ KeyLess(Unwrap(sort_key(ls[i + 2])), key)
    THEN SortScan(ls, key, i + 1)
    ELSE i

\* layers[0..=i].rotate_left(1)
RotateLeft(ls, i) ==
    IF i > 0
    THEN SubSeq(ls, 2, i + 1) \o <<ls[1]>> \o SubSeq(ls, i + 2, Len(ls))
    ELSE ls

\* sort_layers on (layers, cursor pool): [layers, cursors]
RECURSIVE sort_layers(_, _)
sort_layers(ls, pool) ==
    IF ls = <<>> THEN [layers |-> ls, cursors |-> pool]
    ELSE IF IsSome(sort_key(ls[1]))
         THEN [layers |-> RotateLeft(ls, SortScan(ls, Unwrap(sort_key(ls[1])), 0)),
               cursors |-> pool]
         ELSE sort_layers(Tail(ls), pool + 1)

\* the loop of insert_layer from index i (0-based) on
RECURSIVE InsertScan(_, _, _, _)
InsertScan(ls, layer, key, i) ==
    IF i < Len(ls)
    THEN IF IsSome(sort_key(ls[i + 1]))
         THEN IF KeyLess(key, Unwrap(sort_key(ls[i + 1])))
              THEN SubSeq(ls, 1, i) \o <<layer>> \o SubSeq(ls, i + 1, Len(ls))
              ELSE InsertScan(ls, layer, key, i + 1)
         ELSE InsertScan(SubSeq(ls, 1, i) \o SubSeq(ls, i + 2, Len(ls)), layer, key, i)
    ELSE Append(ls, layer)

insert_layer(ls, layer) ==
    IF IsSome(sort_key(layer))
    THEN InsertScan(ls, layer, Unwrap(sort_key(layer)), 1)
    ELSE ls

RECURSIVE InsertLayers(_, _)
InsertLayers(ls, new) ==
    IF new = <<>> THEN ls ELSE InsertLayers(insert_layer(ls, Head(new)), Tail(new))

----------------------------------------------------------------------------
(* intersect_ranges.  A content node is [range, children], children being  *)
(* the byte ranges of its direct children in document order.               *)

\* the `while parent_range.start_byte <= range.end_byte` loop: pi is the
\* 1-based position of parent_range in parent_ranges; `returned` is the
\* early `return result` when the parent ranges run out
RECURSIVE ClipToParents(_, _, _, _)
ClipToParents(parent_ranges, range, pi, result) ==
    LET parent_range == parent_ranges[pi]
    IN  IF ~(Start(parent_range) <= End(range))
        THEN [result |-> result, pi |-> pi, returned |-> FALSE]
        ELSE LET overlaps == End(parent_range) > Start(range)
                 r1 == IF overlaps /\ Start(range) < Start(parent_range)
                       THEN <<Start(parent_range), End(range)>> ELSE range
                 cut == overlaps /\ End(parent_range) < End(r1)
             IN  IF overlaps /\ ~cut
                 THEN [result |-> IF Start(r1) < End(r1) THEN Append(result, r1) ELSE result,
                       pi |-> pi, returned |-> FALSE]
                 ELSE LET res2 == IF cut /\ Start(r1) < End(parent_range)
                                  THEN Append(result, <<Start(r1), End(parent_range)>>)
                                  ELSE result
                          r2 == IF cut THEN <<End(parent_range), End(r1)>> ELSE r1
                      IN  IF pi < Len(parent_ranges)
                          THEN ClipToParents(parent_ranges, r2, pi + 1, res2)
                          ELSE [result |-> res2, pi |-> pi, returned |-> TRUE]

\* the loop over a node's excluded ranges (its children unless
\* includes_children, then the range following the node)
RECURSIVE ExcludeLoop(_, _, _, _, _)
ExcludeLoop(parent_ranges, excluded, preceding_end, pi, result) ==
    IF excluded = <<>> THEN [result |-> result, pi |-> pi, returned |-> FALSE]
    ELSE LET excluded_range == Head(excluded)
             range == <<preceding_end, Start(excluded_range)>>
         IN  IF End(range) < Start(parent_ranges[pi])
             THEN ExcludeLoop(parent_ranges, Tail(excluded), End(excluded_range), pi, result)
             ELSE LET c == ClipToParents(parent_ranges, range, pi, result)
                  IN  IF c.returned THEN c
                      ELSE ExcludeLoop(parent_ranges, Tail(excluded), End(excluded_range),
                                       c.pi, c.result)

RECURSIVE NodeLoop(_, _, _, _, _)
NodeLoop(parent_ranges, nodes, includes_children, pi, result) ==
    IF nodes = <<>> THEN result
    ELSE LET node == Head(nodes)
             following_range == <<End(node.range), USIZE_MAX>>
             excluded == (IF includes_children THEN <<>> ELSE node.children)
                         \o <<following_range>>
             e == ExcludeLoop(parent_ranges, excluded, Start(node.range), pi, result)
         IN  IF e.returned THEN e.result
             ELSE NodeLoop(parent_ranges, Tail(nodes), includes_children, e.pi, e.result)

intersect_ranges(parent_ranges, nodes, includes_children) ==
    NodeLoop(parent_ranges, nodes, includes_children, 1, <<>>)

----------------------------------------------------------------------------
(* injection_for_match: (language_name, content_node, include_children).   *)

\* the loop over query_match.captures
RECURSIVE InjectionCaptures(_, _, _, _, _)
InjectionCaptures(config, captures, src, lang, content_node) ==
    IF captures = <<>> THEN [language_name |-> lang, content_node |-> content_node]
    ELSE LET capture == Head(captures)
             index == Some(capture.index)
         IN  IF index = injection_language_capture_index(config)
             THEN InjectionCaptures(config, Tail(captures), src,
                                    utf8_text(src, capture.node), content_node)
             ELSE IF index = injection_content_capture_index(config)
                  THEN InjectionCaptures(config, Tail(captures), src,
                                         lang, Some(capture.node))
                  ELSE InjectionCaptures(config, Tail(captures), src,
                                         lang, content_node)

\* faulty variant: an injection.language property with a value replaces the
\* name found so far
RECURSIVE InjectionSettings_PropertyOverrides(_, _, _, _, _)
InjectionSettings_PropertyOverrides(config, parent_name, settings, lang, include_children) ==
    IF settings = <<>>
    THEN [language_name |-> lang, include_children |-> include_children]
    ELSE LET prop == Head(settings)
             rest == Tail(settings)
         IN  CASE prop.key = "injection.language" ->
                    InjectionSettings_PropertyOverrides(config, parent_name, rest,
                        IF prop.value # None THEN prop.value ELSE lang,
                        include_children)
               [] prop.key = "injection.self" ->
                    InjectionSettings_PropertyOverrides(config, parent_name, rest,
                        IF lang = None THEN Some(config.language_name)
                        ELSE lang,
                        include_children)
               [] prop.key = "injection.parent" ->
                    InjectionSettings_PropertyOverrides(config, parent_name, rest,
                        IF lang = None THEN parent_name ELSE lang,
                        include_children)
               [] prop.key = "injection.include-children" ->
                    InjectionSettings_PropertyOverrides(config, parent_name, rest, lang,
                                                        TRUE)
               [] OTHER ->
                    InjectionSettings_PropertyOverrides(config, parent_name, rest, lang,
                                                        include_children)

\* the loop over the pattern's property settings
RECURSIVE InjectionSettings(_, _, _, _, _)
InjectionSettings(config, parent_name, settings, lang, include_children) ==
    IF settings = <<>>
    THEN [language_name |-> lang, include_children |-> include_children]
    ELSE LET prop == Head(settings)
             rest == Tail(settings)
         IN  CASE prop.key = "injection.language" ->
                    InjectionSettings(config, parent_name, rest,
                        IF lang = None THEN prop.value ELSE lang,
                        include_children)
               [] prop.key = "injection.self" ->
                    InjectionSettings(config, parent_name, rest,
                        IF lang = None THEN Some(config.language_name)
                        ELSE lang,
                        include_children)
               [] prop.key = "injection.parent" ->
                    InjectionSettings(config, parent_name, rest,
                        IF lang = None THEN parent_name ELSE lang,
                        include_children)
               [] prop.key = "injection.include-children" ->
                    InjectionSettings(config, parent_name, rest, lang, TRUE)
               [] OTHER ->
                    InjectionSettings(config, parent_name, rest, lang,
                                      include_children)

\* faulty variant: a match that names no language gets the layer's own
injection_for_match_SelfByDefault(config, parent_name, pattern_index, captures, src) ==
    LET c == InjectionCaptures(config, captures, src, None, None)
        s == InjectionSettings(config, parent_name, property_settings(config, pattern_index),
                               c.language_name, FALSE)
    IN  [language_name |-> IF s.language_name = None THEN Some(config.language_name)
                           ELSE s.language_name,
         content_node |-> c.content_node,
         include_children |-> s.include_children]

injection_for_match(config, parent_name, pattern_index, captures, src) ==
    LET c == InjectionCaptures(config, captures, src, None, None)
        s == InjectionSettings(config, parent_name, property_settings(config, pattern_index),
                               c.language_name, FALSE)
    IN  [language_name |-> s.language_name, content_node |-> c.content_node,
         include_children |-> s.include_children]

----------------------------------------------------------------------------
(* The parser and the query cursor (tree_sitter::Parser, QueryCursor): not *)
(* in highlight.rs.  What they hand to the iterator is chosen here, within *)
(* what tree-sitter guarantees.                                            *)

\* a node of a tree parsed with included ranges starts and ends inside them
NodeInRanges(n, ranges) ==
    /\ \E i \in DOMAIN ranges : Start(ranges[i]) <= Start(n) /\ Start(n) < End(ranges[i])
    /\ \E i \in DOMAIN ranges : Start(ranges[i]) < End(n) /\ End(n) <= End(ranges[i])

\* the nodes a layer's tree can still show at or after byte `from`
FreshNodes(layer, from) ==
    {n \in Nodes : /\ Start(n) >= from
                   /\ NodeInRanges(n, layer.ranges)
                   /\ \A m \in layer.tree : Laminar(n, m)}

Live(tree, from) == {m \in tree : End(m) > from}

RECURSIVE SortedSeq(_)
SortedSeq(S) ==
    IF S = {} THEN <<>>
    ELSE LET m == CHOOSE x \in S : \A y \in S : x <= y
         IN  <<m>> \o SortedSeq(S \ {m})

\* the matches of pattern p whose first capture is node n: a second capture
\* (local.definition-value) lies behind the node.  The stream item of that
\* second capture is left out: next() takes none of its branches for it
\* (lines 948-1010), so it changes no field and returns nothing.
MatchesAt(layer, p, n) ==
    LET caps == At(Config(layer.config).patterns, p).captures
    IN  IF Len(caps) = 1
        THEN {<<[index |-> caps[1], node |-> n]>>}
        ELSE {<<[index |-> caps[1], node |-> n], [index |-> caps[2], node |-> v]>> :
                v \in FreshNodes(layer, End(n))}

\* the captures on node n by the patterns ps (ascending), one item each
RECURSIVE RunsOn(_, _, _)
RunsOn(layer, ps, n) ==
    IF ps = <<>> THEN {<<>>}
    ELSE {<<Item(Head(ps), m, 0)>> \o rest :
            m \in MatchesAt(layer, Head(ps), n), rest \in RunsOn(layer, Tail(ps), n)}

RunNodes(run) == UNION {{c.node : c \in Range(run[i].captures)} : i \in DOMAIN run}

\* the captures of the next captured node: <<node, captures>>; captures at
\* one start byte come in pattern order, those of one pattern outermost
\* node first
NextRuns(layer, k) ==
    UNION {UNION {{<<n, r>> : r \in RunsOn(layer, SortedSeq(ps), n)} :
                    ps \in {ps \in SUBSET EnabledPatterns(Config(layer.config)) :
                              /\ ps # {}
                              /\ Cardinality(ps) <= Min(k, MaxRun)
                              /\ (Start(n) = layer.cursor.start =>
                                    \A p \in ps :
                                        \/ p > layer.cursor.pattern
                                        \/ p = layer.cursor.pattern
                                           /\ End(n) < layer.cursor.end)}} :
             n \in FreshNodes(layer, layer.cursor.start)}

\* QueryCaptures::next as seen through Peekable: a layer whose decided
\* captures are used up gets the captures of the next captured node, or none
\* (the stream has ended).  k is the number of captures still allowed.
Refill(layer, k) ==
    IF layer.captures # <<>> THEN {layer}
    ELSE {[layer EXCEPT !.cursor = [start |-> 0, pattern |-> 0, end |-> USIZE_MAX],
                        !.tree = {}]} \cup
         {[layer EXCEPT !.captures = nr[2],
                        !.cursor = [start |-> Start(nr[1]),
                                    pattern |-> Last(nr[2]).pattern_index,
                                    end |-> End(nr[1])],
                        !.tree = Live(layer.tree \cup RunNodes(nr[2]), Start(nr[1]))] :
            nr \in NextRuns(layer, k)}

\* the children a content node can have: up to k disjoint nodes inside it,
\* an only child possibly spanning all of it
RECURSIVE ChildLists(_, _, _, _)
ChildLists(layer, n, from, k) ==
    {<<>>} \cup
    (IF k = 0 THEN {}
     ELSE UNION {{<<c>> \o rest : rest \in ChildLists(layer, n, End(c), k - 1)} :
                   c \in {c \in FreshNodes(layer, from) : End(c) <= End(n)}})

----------------------------------------------------------------------------
(* HighlightIterLayer::new.                                                *)

\* the injection callback as called while `built` layers exist or are
\* queued: the caller resolves no language once MaxLayers are reached
Callback(name, built) ==
    IF built < MaxLayers THEN injection_callback(name) ELSE None

\* what the combined-injections query matches in a fresh tree, pattern by
\* pattern (ps ascending): per pattern the content nodes with their children
RECURSIVE CombinedMatches(_, _)
CombinedMatches(layer, ps) ==
    IF ps = <<>> THEN {[buckets |-> <<>>, tree |-> layer.tree]}
    ELSE LET p == Head(ps)
             reads_children ==
                ~injection_for_match(Config(layer.config), None, p, <<>>, <<>>).include_children
             firsts ==
                {<<>>} \cup
                UNION {{<<[range |-> n, children |-> ch]>> :
                          ch \in IF reads_children
                                 THEN ChildLists(layer, n, Start(n), MaxChildren)
                                 ELSE {<<>>}} :
                       n \in IF MaxContent > 0 THEN FreshNodes(layer, 0) ELSE {}}
         IN  UNION {{[buckets |-> <<[pattern_index |-> p, nodes |-> nodes]>> \o rest.buckets,
                      tree |-> rest.tree] :
                        rest \in CombinedMatches(
                            [layer EXCEPT !.tree = layer.tree \cup
                                UNION {{nodes[i].range} \cup Range(nodes[i].children) :
                                       i \in DOMAIN nodes}],
                            Tail(ps))} :
                    nodes \in firsts}

\* the `for ... in injections_by_pattern_index` loop: the queue entries the
\* buckets add
RECURSIVE CombinedJobs(_, _, _, _, _, _)
CombinedJobs(job, parent_name, src, buckets, built, acc) ==
    IF buckets = <<>> THEN acc
    ELSE LET b == Head(buckets)
             config == Config(job.config)
             content == injection_content_capture_index(config)
             inj == injection_for_match(config, parent_name, b.pattern_index,
                        IF b.nodes = <<>> THEN <<>>
                        ELSE <<[index |-> Unwrap(content), node |-> Last(b.nodes).range]>>,
                        src)
             next_config == IF IsSome(inj.language_name) /\ b.nodes # <<>>
                            THEN Callback(Unwrap(inj.language_name), built + Len(acc))
                            ELSE None
             ranges == intersect_ranges(job.ranges, b.nodes, inj.include_children)
         IN  CombinedJobs(job, parent_name, src, Tail(buckets), built,
                IF IsSome(next_config) /\ ranges # <<>>
                THEN Append(acc, [config |-> Unwrap(next_config), depth |-> job.depth + 1,
                                  ranges |-> ranges])
                ELSE acc)

\* lines 523-526: set_language(&config.language).map_err(|_| Error::InvalidLanguage)
set_language(config) ==
    IF config.language_ok THEN None ELSE Some("InvalidLanguage")

\* faulty variant: a parse that gave no tree while no cancellation flag asked
\* for it is reported as Unknown
parse_with_options_UnknownUnlessFlag(tree, flag) ==
    IF tree THEN None
    ELSE IF IsSome(flag) /\ Unwrap(flag) # 0 THEN Some("Cancelled") ELSE Some("Unknown")

\* lines 528-547: parse_with_options(...).ok_or(Error::Cancelled), `tree`
\* telling whether the parser returned a tree
parse_with_options(tree, flag) ==
    IF tree THEN None ELSE Some("Cancelled")

\* the loop of new() over the queue, the first entry being the layer asked
\* for.  Each outcome: [err, layers, cursors, fuel, nlayers].
RECURSIVE BuildLayers(_, _, _, _, _, _, _, _)
BuildLayers(queue, result, parent_name, src, flag, pool, k, nl) ==
    IF queue = <<>>
    THEN {[err |-> None, layers |-> result, cursors |-> pool, fuel |-> k, nlayers |-> nl]}
    ELSE LET job == Head(queue)
             config == Config(job.config)
             fresh == HighlightIterLayer(job.config, job.depth, job.ranges)
             failed(e) == [err |-> Some(e), layers |-> <<>>, cursors |-> pool,
                           fuel |-> k, nlayers |-> nl]
         IN  IF IsSome(set_language(config)) THEN {failed(Unwrap(set_language(config)))}
             ELSE (IF IsSome(flag) /\ Unwrap(flag) # 0
                   THEN {failed(Unwrap(parse_with_options(FALSE, flag)))} ELSE {})
                  \cup
                  UNION {UNION {BuildLayers(
                                    Tail(queue) \o
                                      CombinedJobs(job, parent_name, src, cm.buckets,
                                                   nl + Len(queue), <<>>),
                                    Append(result, layer), parent_name, src, flag,
                                    IF pool > 0 THEN pool - 1 ELSE 0,
                                    k - Len(layer.captures), nl + 1) :
                                layer \in Refill([fresh EXCEPT !.tree = cm.tree], k)} :
                         cm \in CombinedMatches(fresh,
                                    SortedSeq(CombinedPatterns(config)))}

\* HighlightIterLayer::new(source, parent_name, highlighter, cancellation_flag,
\*                         injection_callback, config, depth, ranges)
new(src, parent_name, pool, flag, config, depth, ranges, k, nl) ==
    BuildLayers(<<[config |-> config, depth |-> depth, ranges |-> ranges]>>, <<>>,
                parent_name, src, flag, pool, k, nl)

\* lines 521-547 for the first entry of the queue: the error new() returns,
\* or what becomes of the entry.  ranges_ok: set_included_ranges accepted
\* the ranges; tree: the parser returned a tree.
FirstLayer(config, flag, ranges_ok, tree) ==
    IF ~ranges_ok THEN [err |-> None, entry |-> "skipped"]
    ELSE IF IsSome(set_language(Config(config)))
         THEN [err |-> set_language(Config(config)), entry |-> "failed"]
         ELSE IF IsSome(parse_with_options(tree, flag))
              THEN [err |-> parse_with_options(tree, flag), entry |-> "failed"]
              ELSE [err |-> None, entry |-> "parsed"]

----------------------------------------------------------------------------
(* HighlightEvent, the items next() returns, and the caller's view.        *)

Source(start, end) == [type |-> "Source", start |-> start, end |-> end]
HighlightStart(h) == [type |-> "HighlightStart", highlight |-> h]
HighlightEnd == [type |-> "HighlightEnd"]

\* where an event comes from: `at` the byte offset it is emitted for, `range`
\* the node (or source span) it is about, `depth` the layer it comes from,
\* `reference` whether the node was looked up as a local.reference,
\* `pattern` the highlight of the highlight pattern chosen for the node and
\* `matched` the number of highlight patterns that captured the node
Note(at, range, depth, reference, pattern, matched) ==
    [at |-> at, range |-> range, depth |-> depth, reference |-> reference,
     pattern |-> pattern, matched |-> matched]

\* the summary after the caller received event ev: the highlights open by
\* bracket matching, whether an end came with none open, the position of the
\* event, the (range, depth) of every highlight started, the end of the last
\* Source span and whether every Source span began where the one before ended
SeenAfter(s, ev, note) ==
    [open |-> CASE ev.type = "HighlightStart" ->
                     Append(s.open, [range |-> note.range, depth |-> note.depth,
                                     highlight |-> ev.highlight,
                                     reference |-> note.reference,
                                     pattern |-> note.pattern,
                                     matched |-> note.matched])
                [] ev.type = "HighlightEnd" ->
                     IF s.open # <<>> THEN Front(s.open) ELSE s.open
                [] OTHER -> s.open,
     unmatched_end |-> s.unmatched_end \/ (ev.type = "HighlightEnd" /\ s.open = <<>>),
     last_at |-> note.at,
     started |-> IF ev.type = "HighlightStart"
                 THEN s.started \cup {<<note.range, note.depth>>} ELSE s.started,
     covered |-> IF ev.type = "Source" THEN ev.end ELSE s.covered,
     contiguous |-> s.contiguous
                    /\ (ev.type = "Source" => ev.start = s.covered /\ ev.start < ev.end)]

\* saturating count
Up(n, cap) == IF n < cap THEN n + 1 ELSE n

\* the counts after a call returned an item of the given type: `finished`
\* counts calls until the flag is set (and only when there is a flag),
\* `since` the calls finished after it, `unbuffered` those of them that did
\* more than hand out next_event, `errors` the Err items
CallsAfter(c, type, buffered) ==
    [c EXCEPT
        !.finished = IF cancellation_flag # None /\ ~c.set
                     THEN Up(@, MaxCallsBeforeCancel + 1) ELSE @,
        !.since = IF c.set THEN Up(@, 2 * CANCELLATION_CHECK_INTERVAL + 1) ELSE @,
        !.unbuffered = IF c.set /\ ~buffered
                       THEN Up(@, 2 * CANCELLATION_CHECK_INTERVAL + 1) ELSE @,
        !.errors = IF type = "Err" THEN Up(@, 2) ELSE @]

ReturnOk(ev, note, buffered) ==
    /\ returned' = [type |-> "Ok", event |-> ev]
    /\ seen' = SeenAfter(seen, ev, note)
    /\ calls' = CallsAfter(calls, "Ok", buffered)

ReturnErr(e) ==
    /\ returned' = [type |-> "Err", error |-> e]
    /\ calls' = [CallsAfter(calls, "Err", FALSE) EXCEPT
                    !.cancelled = @ \/ (calls.set /\ e = "Cancelled")]
    /\ UNCHANGED seen

ReturnNone ==
    /\ returned' = [type |-> "None"]
    /\ calls' = CallsAfter(calls, "None", FALSE)
    /\ UNCHANGED seen

\* `continue 'main`: the call goes on with another pass
Continue ==
    /\ returned' = [type |-> "Running"]
    /\ UNCHANGED <<seen, calls>>

\* faulty variant: byte_offset is not advanced to the offset emitted
emit_event_StaleOffset(ls, pool, offset, event) ==
    LET sorted == sort_layers(ls, pool)
    IN  IF byte_offset < offset
        THEN [result |-> Some(Source(byte_offset, offset)), byte_offset |-> byte_offset,
              next_event |-> event, layers |-> sorted.layers, cursors |-> sorted.cursors]
        ELSE [result |-> event, byte_offset |-> byte_offset,
              next_event |-> next_event, layers |-> sorted.layers,
              cursors |-> sorted.cursors]

\* emit_event(offset, event), sort_layers included: the item to return and
\* the fields it leaves
emit_event(ls, pool, offset, event) ==
    LET sorted == sort_layers(ls, pool)
    IN  IF byte_offset < offset
        THEN [result |-> Some(Source(byte_offset, offset)), byte_offset |-> offset,
              next_event |-> event, layers |-> sorted.layers, cursors |-> sorted.cursors]
        ELSE [result |-> event, byte_offset |-> byte_offset,
              next_event |-> next_event, layers |-> sorted.layers,
              cursors |-> sorted.cursors]

\* the caller receives what emit_event returned; note is the position of `event`
Emitted(em, note) ==
    /\ byte_offset' = em.byte_offset
    /\ next_event' = em.next_event
    /\ layers' = em.layers
    /\ cursors' = em.cursors
    /\ IF em.result = None
       THEN ReturnNone /\ pending' = None
       ELSE IF Unwrap(em.result).type = "Source"
            THEN /\ ReturnOk(Unwrap(em.result),
                             Note(em.byte_offset,
                                  <<Unwrap(em.result).start, em.byte_offset>>, 0,
                                  FALSE, None, 0), FALSE)
                 /\ pending' = IF em.next_event = None THEN None ELSE Some(note)
            ELSE ReturnOk(Unwrap(em.result), note, FALSE) /\ pending' = None

\* faulty variant: the flag is polled in every pass
Polled_EveryPass ==
    /\ cancellation_flag # None
    /\ Unwrap(cancellation_flag) # 0

\* lines 833-841: the flag is polled in this pass and found set
Polled ==
    /\ cancellation_flag # None
    /\ iter_count + 1 >= CANCELLATION_CHECK_INTERVAL
    /\ Unwrap(cancellation_flag) # 0

\* faulty variant: the passes are not counted
Counted_NotCounting == iter_count

\* iter_count after lines 833-841 of a pass that goes on
Counted ==
    IF cancellation_flag = None THEN iter_count
    ELSE IF iter_count + 1 >= CANCELLATION_CHECK_INTERVAL THEN 0 ELSE iter_count + 1

\* a pass that gets beyond the buffered event and the cancellation check
Pass ==
    /\ next_event = None
    /\ ~Polled
    /\ iter_count' = Counted

\* lines 864-872: a highlight of the front layer ends at or before its next capture
EndsFirst(layer) ==
    /\ layer.captures # <<>>
    /\ layer.highlight_end_stack # <<>>
    /\ Last(layer.highlight_end_stack) <= Start(Capture(Head(layer.captures)).node)

----------------------------------------------------------------------------
(* next(): the passes that touch no capture.                               *)

\* lines 827-829
TakeNextEvent ==
    /\ next_event # None
    /\ next_event' = None
    /\ ReturnOk(Unwrap(next_event), Unwrap(pending), TRUE)
    /\ pending' = None
    /\ UNCHANGED <<source, language_name, byte_offset, cancellation_flag, layers,
                   iter_count, last_highlight_range, cursors, fuel, nlayers>>
    /\ UNCHANGED <<config_vars, render_vars, call_vars>>

\* lines 833-839
Cancelled ==
    /\ next_event = None
    /\ Polled
    /\ iter_count' = 0
    /\ ReturnErr("Cancelled")
    /\ UNCHANGED <<source, language_name, byte_offset, cancellation_flag, layers,
                   next_event, last_highlight_range, cursors, fuel, nlayers, pending>>
    /\ UNCHANGED <<config_vars, render_vars, call_vars>>

\* faulty variant: the rest of the source is returned and byte_offset stays
NoLayers_OffsetStays ==
    /\ Pass
    /\ layers = <<>>
    /\ IF byte_offset < Len(source)
       THEN ReturnOk(Source(byte_offset, Len(source)),
                     Note(Len(source), <<byte_offset, Len(source)>>, 0, FALSE, None, 0),
                     FALSE)
       ELSE ReturnNone
    /\ UNCHANGED <<source, language_name, byte_offset, cancellation_flag, layers,
                   next_event, last_highlight_range, cursors, fuel, nlayers, pending>>
    /\ UNCHANGED <<config_vars, render_vars, call_vars>>

\* lines 844-855
NoLayers ==
    /\ Pass
    /\ layers = <<>>
    /\ IF byte_offset < Len(source)
       THEN /\ ReturnOk(Source(byte_offset, Len(source)),
                        Note(Len(source), <<byte_offset, Len(source)>>, 0, FALSE, None, 0),
                        FALSE)
            /\ byte_offset' = Len(source)
       ELSE /\ ReturnNone
            /\ UNCHANGED byte_offset
    /\ UNCHANGED <<source, language_name, cancellation_flag, layers, next_event,
                   last_highlight_range, cursors, fuel, nlayers, pending>>
    /\ UNCHANGED <<config_vars, render_vars, call_vars>>

\* lines 864-882: the front layer's innermost highlight ends before its next
\* capture starts, or the layer has no captures left
EndHighlight ==
    /\ Pass
    /\ layers # <<>>
    /\ LET layer == layers[1]
           end_byte == Last(layer.highlight_end_stack)
           popped == [layer EXCEPT !.highlight_end_stack = Front(@)]
       IN  /\ layer.captures # <<>> => EndsFirst(layer)
           /\ IF layer.highlight_end_stack # <<>>
              THEN Emitted(emit_event(<<popped>> \o Tail(layers), cursors, end_byte,
                                      Some(HighlightEnd)),
                           Note(end_byte, <<end_byte, end_byte>>, layer.depth, FALSE, None, 0))
              ELSE Emitted(emit_event(layers, cursors, Len(source), None),
                           Note(Len(source), <<0, 0>>, 0, FALSE, None, 0))
    /\ UNCHANGED <<source, language_name, cancellation_flag, last_highlight_range,
                   fuel, nlayers>>
    /\ UNCHANGED <<config_vars, render_vars, call_vars>>

----------------------------------------------------------------------------
(* next(): local-variable tracking and highlight selection for the         *)
(* captures of one node (lines 936-1077).                                  *)

\* lines 937-939
RECURSIVE PruneScopes(_, _)
PruneScopes(scope_stack, start) ==
    IF start > End(Last(scope_stack).range)
    THEN PruneScopes(Front(scope_stack), start)
    ELSE scope_stack

\* lines 955-960: the scope's inherits flag after the pattern's settings
RECURSIVE ScopeInherits(_, _)
ScopeInherits(settings, inherits) ==
    IF settings = <<>> THEN inherits
    ELSE ScopeInherits(Tail(settings),
            IF Head(settings).key = "local.scope-inherits"
            THEN Head(settings).value = None \/ Head(settings).value = Some("true")
            ELSE inherits)

\* lines 970-975: the range of the match's local.definition-value capture
RECURSIVE ValueRange(_, _, _)
ValueRange(config, captures, value_range) ==
    IF captures = <<>> THEN value_range
    ELSE ValueRange(config, Tail(captures),
            IF Some(Head(captures).index) = local_def_value_capture_index(config)
            THEN Head(captures).node ELSE value_range)

\* faulty variant: the end of the definition's value is not compared
RECURSIVE FindDef_AnyPosition(_, _, _, _)
FindDef_AnyPosition(local_defs, j, name, start) ==
    IF j = 0 THEN None
    ELSE IF local_defs[j].name = name
         THEN Some(local_defs[j].highlight)
         ELSE FindDef_AnyPosition(local_defs, j - 1, name, start)

\* lines 995-1001: local_defs.iter().rev().find_map(..): Some(def.highlight)
\* of the newest definition of the name whose value ends at or before start
RECURSIVE FindDef(_, _, _, _)
FindDef(local_defs, j, name, start) ==
    IF j = 0 THEN None
    ELSE IF local_defs[j].name = name /\ start >= End(local_defs[j].value_range)
         THEN Some(local_defs[j].highlight)
         ELSE FindDef(local_defs, j - 1, name, start)

\* faulty variant: the walk goes on below a scope that does not inherit
RECURSIVE Resolve_ThroughAllScopes(_, _, _, _, _)
Resolve_ThroughAllScopes(scope_stack, i, name, start, reference_highlight) ==
    IF i = 0 THEN reference_highlight
    ELSE LET found == FindDef(scope_stack[i].local_defs, Len(scope_stack[i].local_defs),
                              name, start)
         IN  IF found # None THEN Unwrap(found)
             ELSE Resolve_ThroughAllScopes(scope_stack, i - 1, name, start,
                                           reference_highlight)

\* lines 994-1008: scope_stack.iter().rev(), from scope i down
RECURSIVE Resolve(_, _, _, _, _)
Resolve(scope_stack, i, name, start, reference_highlight) ==
    IF i = 0 THEN reference_highlight
    ELSE LET found == FindDef(scope_stack[i].local_defs, Len(scope_stack[i].local_defs),
                              name, start)
         IN  IF found # None THEN Unwrap(found)
             ELSE IF ~scope_stack[i].inherits THEN reference_highlight
                  ELSE Resolve(scope_stack, i - 1, name, start, reference_highlight)

\* lines 945-1024, the `while match_.pattern_index < highlights_pattern_index`
\* loop from `item` on, rest being the following captures of the same node.
\* definition_highlight is Some([scope, def]): the position of the
\* definition whose highlight slot the reference points to.
RECURSIVE LocalsLoop(_, _, _, _, _, _, _, _)
LocalsLoop(config, src, range, item, rest, scope_stack, reference_highlight, definition_highlight) ==
    IF ~(item.pattern_index < config.highlights_pattern_index)
    THEN [locals_only |-> FALSE, item |-> item, rest |-> rest, scope_stack |-> scope_stack,
          reference_highlight |-> reference_highlight,
          definition_highlight |-> definition_highlight]
    ELSE LET index == Some(Capture(item).index)
             top == Len(scope_stack)
             after ==
                CASE index = local_scope_capture_index(config) ->
                        [scope_stack |->
                            Append(scope_stack,
                                LocalScope(ScopeInherits(
                                               property_settings(config, item.pattern_index),
                                               TRUE),
                                           range, <<>>)),
                         reference_highlight |-> reference_highlight,
                         definition_highlight |-> None]
                  [] index = local_def_capture_index(config) ->
                        [scope_stack |->
                            [scope_stack EXCEPT ![top].local_defs =
                                Append(@, LocalDef(Text(src, range),
                                                   ValueRange(config, item.captures, <<0, 0>>),
                                                   None))],
                         reference_highlight |-> None,
                         definition_highlight |->
                            Some([scope |-> top,
                                  def |-> Len(scope_stack[top].local_defs) + 1])]
                  [] index = local_ref_capture_index(config)
                     /\ definition_highlight = None ->
                        [scope_stack |-> scope_stack,
                         reference_highlight |->
                            Resolve(scope_stack, top, Text(src, range), Start(range),
                                    reference_highlight),
                         definition_highlight |-> None]
                  [] OTHER ->
                        [scope_stack |-> scope_stack,
                         reference_highlight |-> reference_highlight,
                         definition_highlight |-> definition_highlight]
         IN  IF rest # <<>>
             THEN LocalsLoop(config, src, range, Head(rest), Tail(rest), after.scope_stack,
                             after.reference_highlight, after.definition_highlight)
             ELSE [locals_only |-> TRUE, item |-> item, rest |-> rest,
                   scope_stack |-> after.scope_stack,
                   reference_highlight |-> after.reference_highlight,
                   definition_highlight |-> after.definition_highlight]

\* faulty variant: the first highlight capture of the node stays the
\* current one
Collapse_FirstWins(config, item, rest, is_local) == item

\* lines 1041-1059: the later highlight captures of the node replace the
\* current one, except those disabled for local variables
RECURSIVE Collapse(_, _, _, _)
Collapse(config, item, rest, is_local) ==
    IF rest = <<>> THEN item
    ELSE IF is_local /\ At(non_local_variable_patterns(config), Head(rest).pattern_index)
         THEN Collapse(config, item, Tail(rest), is_local)
         ELSE Collapse(config, Head(rest), Tail(rest), is_local)

\* faulty variant: the pattern's highlight goes before the definition's
EffectiveHighlight_PatternFirst(reference_highlight, current_highlight) ==
    IF current_highlight # None THEN current_highlight ELSE reference_highlight

\* line 1070: reference_highlight.or(current_highlight)
EffectiveHighlight(reference_highlight, current_highlight) ==
    IF reference_highlight # None THEN reference_highlight ELSE current_highlight

\* lines 884-1077 for a capture that is no injection: what the pass does to
\* the front layer and how it ends.  kind is "locals" (line 1023), "skip"
\* (line 1032), "start" (line 1073) or "none" (line 1077).
ProcessCaptures(layer, src, last_range) ==
    LET config == Config(layer.config)
        first == Head(layer.captures)
        range == Capture(first).node
        loop == LocalsLoop(config, src, range, first, Tail(layer.captures),
                           PruneScopes(layer.scope_stack, Start(range)), None, None)
        duplicate == /\ last_range # None
                     /\ Start(range) = Unwrap(last_range)[1]
                     /\ End(range) = Unwrap(last_range)[2]
                     /\ layer.depth < Unwrap(last_range)[3]
        chosen == Collapse(config, loop.item, loop.rest,
                           loop.definition_highlight # None
                           \/ loop.reference_highlight # None)
        current_highlight == At(config.highlight_indices, Capture(chosen).index)
        stored == IF loop.definition_highlight # None
                  THEN [loop.scope_stack EXCEPT
                          ![Unwrap(loop.definition_highlight).scope]
                             .local_defs[Unwrap(loop.definition_highlight).def]
                             .highlight = current_highlight]
                  ELSE loop.scope_stack
        highlight == EffectiveHighlight(loop.reference_highlight, current_highlight)
        \* the branch of lines 989-1010 was taken for the node
        looked_up == \E i \in DOMAIN layer.captures :
                        /\ Some(Capture(layer.captures[i]).index)
                                = local_ref_capture_index(config)
                        /\ \A j \in 1..(i - 1) :
                                Some(Capture(layer.captures[j]).index)
                                    # local_def_capture_index(config)
    IN  IF loop.locals_only
        THEN [kind |-> "locals",
              layer |-> [layer EXCEPT !.captures = <<>>, !.scope_stack = loop.scope_stack],
              last_highlight_range |-> last_range, highlight |-> None, range |-> range,
              reference |-> FALSE, pattern |-> None, matched |-> 0]
        ELSE IF duplicate
        THEN [kind |-> "skip",
              layer |-> [layer EXCEPT !.captures = loop.rest,
                                      !.scope_stack = loop.scope_stack],
              last_highlight_range |-> last_range, highlight |-> None, range |-> range,
              reference |-> FALSE, pattern |-> None, matched |-> 0]
        ELSE IF highlight # None
        THEN [kind |-> "start",
              layer |-> [layer EXCEPT !.captures = <<>>, !.scope_stack = stored,
                                      !.highlight_end_stack = Append(@, End(range))],
              last_highlight_range |-> Some(<<Start(range), End(range), layer.depth>>),
              highlight |-> highlight, range |-> range,
              reference |-> looked_up,
              pattern |-> current_highlight, matched |-> 1 + Len(loop.rest)]
        ELSE [kind |-> "none",
              layer |-> [layer EXCEPT !.captures = <<>>, !.scope_stack = stored],
              last_highlight_range |-> last_range, highlight |-> None, range |-> range,
              reference |-> FALSE, pattern |-> None, matched |-> 0]

----------------------------------------------------------------------------
(* next(): the passes that take a capture from the front layer.            *)

\* lines 860-873 fall through: the front layer has a capture to process
HasCapture ==
    /\ layers # <<>>
    /\ layers[1].captures # <<>>
    /\ ~EndsFirst(layers[1])

TakesCapture == Pass /\ HasCapture

\* lines 932-933, 1022-1023, 1031-1032, 1077: sort_layers, then `continue 'main`
SortAndContinue(ls) ==
    /\ layers' = sort_layers(ls, cursors).layers
    /\ cursors' = sort_layers(ls, cursors).cursors
    /\ Continue
    /\ UNCHANGED <<byte_offset, next_event, pending>>

\* lines 887-934: the capture belongs to an injection pattern
Injection ==
    /\ TakesCapture
    /\ Head(layers[1].captures).pattern_index < Config(layers[1].config).locals_pattern_index
    /\ LET layer == layers[1]
           item == Head(layer.captures)
           inj == injection_for_match(Config(layer.config), Some(language_name),
                                      item.pattern_index, item.captures, source)
           taken == [layer EXCEPT !.captures = Tail(@)]
           config == IF inj.language_name # None /\ inj.content_node # None
                     THEN Callback(Unwrap(inj.language_name), nlayers) ELSE None
       IN  \E children \in IF config # None /\ ~inj.include_children
                           THEN ChildLists(layer, Unwrap(inj.content_node),
                                           Start(Unwrap(inj.content_node)), MaxChildren)
                           ELSE {<<>>} :
           LET ranges == IF config # None
                         THEN intersect_ranges(layer.ranges,
                                  <<[range |-> Unwrap(inj.content_node),
                                     children |-> children]>>,
                                  inj.include_children)
                         ELSE <<>>
               built == IF ranges # <<>>
                        THEN new(source, Some(language_name), cursors, cancellation_flag,
                                 Unwrap(config), layer.depth + 1, ranges, fuel, nlayers)
                        ELSE {[err |-> None, layers |-> <<>>, cursors |-> cursors,
                               fuel |-> fuel, nlayers |-> nlayers]}
           IN  \E b \in built :
               \E front \in Refill([taken EXCEPT !.tree = @ \cup Range(children)], b.fuel) :
                  /\ fuel' = b.fuel - (IF taken.captures = <<>>
                                       THEN Len(front.captures) ELSE 0)
                  /\ nlayers' = b.nlayers
                  /\ IF b.err # None
                     THEN /\ ReturnErr(Unwrap(b.err))
                          /\ layers' = <<front>> \o Tail(layers)
                          /\ cursors' = b.cursors
                          /\ UNCHANGED <<byte_offset, next_event, pending>>
                     ELSE LET inserted == InsertLayers(<<front>> \o Tail(layers), b.layers)
                          IN  /\ layers' = sort_layers(inserted, b.cursors).layers
                              /\ cursors' = sort_layers(inserted, b.cursors).cursors
                              /\ Continue
                              /\ UNCHANGED <<byte_offset, next_event, pending>>
    /\ UNCHANGED <<source, language_name, cancellation_flag, last_highlight_range>>
    /\ UNCHANGED <<config_vars, render_vars, call_vars>>

\* lines 936-1077: the capture belongs to a local-variable or highlight pattern
Highlight ==
    /\ TakesCapture
    /\ ~(Head(layers[1].captures).pattern_index
            < Config(layers[1].config).locals_pattern_index)
    /\ LET pc == ProcessCaptures(layers[1], source, last_highlight_range)
       IN  \E front \in Refill(pc.layer, fuel) :
              /\ fuel' = fuel - (IF pc.layer.captures = <<>>
                                 THEN Len(front.captures) ELSE 0)
              /\ last_highlight_range' = pc.last_highlight_range
              /\ IF pc.kind = "start"
                 THEN Emitted(emit_event(<<front>> \o Tail(layers), cursors,
                                         Start(pc.range),
                                         Some(HighlightStart(Unwrap(pc.highlight)))),
                              Note(Start(pc.range), pc.range, layers[1].depth,
                                   pc.reference, pc.pattern, pc.matched))
                 ELSE SortAndContinue(<<front>> \o Tail(layers))
    /\ UNCHANGED <<source, language_name, cancellation_flag, nlayers>>
    /\ UNCHANGED <<config_vars, render_vars, call_vars>>

\* the caller stores a non-zero value in the cancellation flag between two
\* calls of next()
SetCancellationFlag ==
    /\ cancellation_flag = Some(0)
    /\ returned.type # "Running"
    /\ calls.finished <= MaxCallsBeforeCancel
    /\ cancellation_flag' = Some(1)
    /\ calls' = [calls EXCEPT !.set = TRUE, !.before_first = (calls.finished = 0)]
    /\ UNCHANGED <<source, language_name, byte_offset, layers, iter_count, next_event,
                   last_highlight_range, cursors, fuel, nlayers, returned, pending, seen>>
    /\ UNCHANGED <<config_vars, render_vars, call_vars>>

----------------------------------------------------------------------------
(* Capture names, configure and nonconformant_capture_names (lines         *)
(* 29-86, 439-499).  A name is the sequence of its pieces: the characters  *)
(* "." and "_" and the words between them, so that "function.builtin" is   *)
(* <<"function", ".", "builtin">> and the empty name is <<>>.              *)

\* highlight.rs:29-86
STANDARD_CAPTURE_NAMES ==
    {<<"attribute">>, <<"boolean">>, <<"carriage-return">>, <<"comment">>,
     <<"comment", ".", "documentation">>, <<"constant">>,
     <<"constant", ".", "builtin">>, <<"constructor">>,
     <<"constructor", ".", "builtin">>, <<"embedded">>, <<"error">>,
     <<"escape">>, <<"function">>, <<"function", ".", "builtin">>,
     <<"keyword">>, <<"markup">>, <<"markup", ".", "bold">>,
     <<"markup", ".", "heading">>, <<"markup", ".", "italic">>,
     <<"markup", ".", "link">>, <<"markup", ".", "link", ".", "url">>,
     <<"markup", ".", "list">>, <<"markup", ".", "list", ".", "checked">>,
     <<"markup", ".", "list", ".", "numbered">>,
     <<"markup", ".", "list", ".", "unchecked">>,
     <<"markup", ".", "list", ".", "unnumbered">>,
     <<"markup", ".", "quote">>, <<"markup", ".", "raw">>,
     <<"markup", ".", "raw", ".", "block">>,
     <<"markup", ".", "raw", ".", "inline">>,
     <<"markup", ".", "strikethrough">>, <<"module">>, <<"number">>,
     <<"operator">>, <<"property">>, <<"property", ".", "builtin">>,
     <<"punctuation">>, <<"punctuation", ".", "bracket">>,
     <<"punctuation", ".", "delimiter">>, <<"punctuation", ".", "special">>,
     <<"string">>, <<"string", ".", "escape">>, <<"string", ".", "regexp">>,
     <<"string", ".", "special">>,
     <<"string", ".", "special", ".", "symbol">>, <<"tag">>, <<"type">>,
     <<"type", ".", "builtin">>, <<"variable">>,
     <<"variable", ".", "builtin">>, <<"variable", ".", "member">>,
     <<"variable", ".", "parameter">>}

\* the 1-based position of the first "." of a name, 0 if it has none
RECURSIVE FirstDot(_, _)
FirstDot(name, i) ==
    IF i > Len(name) THEN 0
    ELSE IF name[i] = "." THEN i ELSE FirstDot(name, i + 1)

\* str::split('.'): the parts of a name, in order; the empty name has one
\* (empty) part
RECURSIVE split(_)
split(name) ==
    LET i == FirstDot(name, 1)
    IN  IF i = 0 THEN <<name>>
        ELSE <<SubSeq(name, 1, i - 1)>> \o split(SubSeq(name, i + 1, Len(name)))

\* str::starts_with('_')
starts_with_underscore(name) == name # <<>> /\ Head(name) = "_"

\* lines 466-474: the loop over the parts of one recognized name
RECURSIVE PartsLoop(_, _, _)
PartsLoop(capture_parts, parts, len) ==
    IF parts = <<>> THEN [len |-> len, matches |-> TRUE]
    ELSE IF Head(parts) \notin Range(capture_parts)
         THEN [len |-> len + 1, matches |-> FALSE]
         ELSE PartsLoop(capture_parts, Tail(parts), len + 1)

\* faulty variant: a recognized name as long as the best one so far replaces it
RECURSIVE RecognizedLoop_LastWins(_, _, _, _, _)
RecognizedLoop_LastWins(capture_parts, recognized_names, i, best_index, best_match_len) ==
    IF i >= Len(recognized_names) THEN best_index
    ELSE LET r == PartsLoop(capture_parts, split(At(recognized_names, i)), 0)
         IN  IF r.matches /\ r.len >= best_match_len
             THEN RecognizedLoop_LastWins(capture_parts, recognized_names, i + 1,
                                          Some(i), r.len)
             ELSE RecognizedLoop_LastWins(capture_parts, recognized_names, i + 1,
                                          best_index, best_match_len)

\* lines 463-480: the loop over the recognized names, from index i on
RECURSIVE RecognizedLoop(_, _, _, _, _)
RecognizedLoop(capture_parts, recognized_names, i, best_index, best_match_len) ==
    IF i >= Len(recognized_names) THEN best_index
    ELSE LET r == PartsLoop(capture_parts, split(At(recognized_names, i)), 0)
         IN  IF r.matches /\ r.len > best_match_len
             THEN RecognizedLoop(capture_parts, recognized_names, i + 1, Some(i), r.len)
             ELSE RecognizedLoop(capture_parts, recognized_names, i + 1,
                                 best_index, best_match_len)

\* configure(recognized_names): the highlight_indices it leaves, one
\* Option<Highlight> per capture name
configure(capture_names, recognized_names) ==
    [c \in DOMAIN capture_names |->
        RecognizedLoop(split(capture_names[c]), recognized_names, 0, None, 0)]

\* faulty variant: an empty set of known names is taken as it is
nonconformant_capture_names_NoDefault(capture_names, known) ==
    SelectSeq(capture_names, LAMBDA n : ~(starts_with_underscore(n) \/ n \in known))

\* nonconformant_capture_names(capture_names): the names() it returns
nonconformant_capture_names(capture_names, known) ==
    LET standard == IF known = {} THEN STANDARD_CAPTURE_NAMES ELSE known
    IN  SelectSeq(capture_names, LAMBDA n : ~(starts_with_underscore(n) \/ n \in standard))

\* the names with exactly k parts over a set of words
RECURSIVE NamesOf(_, _)
NamesOf(words, k) ==
    IF k = 1 THEN {<<w>> : w \in words}
    ELSE {<<w, ".">> \o n : w \in words, n \in NamesOf(words, k - 1)}

\* the sequences of at most n elements of S
Lists(S, n) == UNION {[1..k -> S] : k \in 0..n}

Words == {"function", "builtin"}

\* the capture names a query under test may have
CaptureNameSet ==
    UNION {NamesOf(Words, k) : k \in 1..MaxParts}
    \cup {<<"function", ".", "method", ".", "builtin">>, <<"method">>, <<"_", "function">>}

\* the names a caller passes to configure
RecognizedNameSet == UNION {NamesOf(Words, k) : k \in 1..MaxRecognizedParts} \cup {<<>>}

\* the names a caller passes to nonconformant_capture_names
KnownNameSet == {<<"function">>, <<"method">>, <<"_", "function">>}

\* HighlightConfiguration::new (line 420): no capture name has a highlight
\* before configure is called
NewConfiguration(capture_names, settings) ==
    /\ query = [capture_names |-> capture_names, settings |-> settings]
    /\ highlight_indices = [c \in DOMAIN capture_names |-> None]
    /\ answer = [op |-> "new"]

\* no configuration is under test
NoConfiguration == NewConfiguration(<<>>, <<>>)

\* faulty variant: the entries of the call before stay in the vector
clear_KeepsEntries(indices) == indices

\* line 457: highlight_indices.clear()
clear(indices) == <<>>

\* lines 455-482: the vector is cleared and then extended with one entry per
\* capture name; the answer keeps whether the call found a highlight in the
\* vector
Configure ==
    /\ \E recognized_names \in Lists(RecognizedNameSet, MaxRecognized) :
          /\ highlight_indices' = clear(highlight_indices)
                                    \o configure(query.capture_names, recognized_names)
          /\ answer' = [op |-> "configure", recognized_names |-> recognized_names,
                        found |-> \E c \in DOMAIN highlight_indices :
                                      highlight_indices[c] # None]
    /\ UNCHANGED <<query, iter_vars, render_vars, call_vars>>

\* lines 488-499
NonconformantCaptureNames ==
    /\ \E known \in SUBSET KnownNameSet :
          answer' = [op |-> "nonconformant_capture_names", capture_names |-> known,
                     value |-> nonconformant_capture_names(query.capture_names, known)]
    /\ UNCHANGED <<query, highlight_indices, iter_vars, render_vars, call_vars>>

----------------------------------------------------------------------------
(* HtmlRenderer (lines 142-148, 1088-1238).  `html` is the sequence of the *)
(* pieces written to it: a source byte (or its escape), "<span ", what the *)
(* attribute callback writes, ">", "</span>" and "></span>"; offsets into  *)
(* html count pieces.  The source is ASCII, which LossyUtf8 leaves as it   *)
(* is.                                                                     *)

\* HtmlRenderer::new, then set_carriage_return_highlight(highlight)
HtmlRenderer(highlight) ==
    [html |-> <<>>, line_offsets |-> <<0>>, carriage_return_highlight |-> highlight,
     last_carriage_return |-> None]

\* what the caller's attribute_callback writes for a highlight
attribute_callback(h) ==
    <<CASE h = 0 -> "class='cr'" [] h = 1 -> "class='1'" [] OTHER -> "class='2'">>

\* lines 1199-1208
html_escape(c) ==
    CASE c = ">" -> Some(<<"&gt;">>)
      [] c = "<" -> Some(<<"&lt;">>)
      [] c = "&" -> Some(<<"&amp;">>)
      [] c = "'" -> Some(<<"&#39;">>)
      [] c = "\"" -> Some(<<"&quot;">>)
      [] OTHER -> None

\* lines 1182-1189
start_highlight(r, h) ==
    [r EXCEPT !.html = @ \o <<"<span ">> \o attribute_callback(h) \o <<">">>]

\* lines 1191-1193
end_highlight(r) == [r EXCEPT !.html = @ \o <<"</span>">>]

\* lines 1164-1180
add_carriage_return(r, offset) ==
    IF r.carriage_return_highlight # None
    THEN LET rest == SubSeq(r.html, offset + 1, Len(r.html))
         IN  [r EXCEPT !.html = SubSeq(r.html, 1, offset) \o <<"<span ">>
                                \o attribute_callback(Unwrap(r.carriage_return_highlight))
                                \o <<"></span>">> \o rest]
    ELSE r

\* faulty variant: the open highlights are not closed
EndAll_Nothing(r, n) == r

\* highlights.iter().for_each(|_| self.end_highlight())
RECURSIVE EndAll(_, _)
EndAll(r, n) == IF n = 0 THEN r ELSE EndAll(end_highlight(r), n - 1)

\* highlights.iter().for_each(|scope| self.start_highlight(*scope, ..))
RECURSIVE StartAll(_, _)
StartAll(r, highlights) ==
    IF highlights = <<>> THEN r
    ELSE StartAll(start_highlight(r, Head(highlights)), Tail(highlights))

\* faulty variant: the pending carriage return is marked whatever follows
TakeCarriageReturn_Always(r, c) ==
    IF r.last_carriage_return # None
    THEN add_carriage_return([r EXCEPT !.last_carriage_return = None],
                             Unwrap(r.last_carriage_return))
    ELSE r

\* lines 1217-1221: a carriage return is pending when byte c arrives
TakeCarriageReturn(r, c) ==
    IF r.last_carriage_return # None
    THEN LET taken == [r EXCEPT !.last_carriage_return = None]
         IN  IF c # "\n"
             THEN add_carriage_return(taken, Unwrap(r.last_carriage_return))
             ELSE taken
    ELSE r

\* lines 1224-1235: byte c is written
WriteByte(r, c, highlights) ==
    IF c = "\n"
    THEN LET closed == EndAll(r, Len(highlights))
             pushed == [closed EXCEPT !.html = Append(@, c)]
             noted == [pushed EXCEPT !.line_offsets = Append(@, Len(pushed.html))]
         IN  StartAll(noted, highlights)
    ELSE IF html_escape(c) # None
         THEN [r EXCEPT !.html = @ \o Unwrap(html_escape(c))]
         ELSE [r EXCEPT !.html = Append(@, c)]

\* lines 1195-1237: add_text(src, highlights, attribute_callback)
RECURSIVE add_text(_, _, _)
add_text(r, src, highlights) ==
    IF src = <<>> THEN r
    ELSE LET c == Head(src)
         IN  IF c = "\r"
             THEN add_text([r EXCEPT !.last_carriage_return = Some(Len(r.html))],
                           Tail(src), highlights)
             ELSE add_text(WriteByte(TakeCarriageReturn(r, c), c, highlights),
                           Tail(src), highlights)

\* the bytes of the sources rendered
Bytes == {"a", "<", "\r", "\n"}

\* the highlights of the events rendered
Highlights == {1, 2}

\* render() is called: nothing has been consumed yet
NewRendering ==
    [highlights |-> <<>>, status |-> "running", text |-> <<>>, starts |-> 0,
     bracketed |-> TRUE]

\* no renderer is in use
NoRenderer ==
    /\ renderer = HtmlRenderer(None)
    /\ rendering = [NewRendering EXCEPT !.status = "idle"]

\* lines 1123-1126
RenderHighlightStart ==
    /\ rendering.status = "running"
    /\ rendering.starts < MaxStarts
    /\ \E s \in Highlights :
          /\ renderer' = start_highlight(renderer, s)
          /\ rendering' = [rendering EXCEPT !.highlights = Append(@, s),
                                            !.starts = @ + 1]
    /\ UNCHANGED <<iter_vars, config_vars, call_vars>>

\* lines 1127-1130; an end with no highlight open makes the stream
\* ill-bracketed
RenderHighlightEnd ==
    /\ rendering.status = "running"
    /\ rendering.highlights = <<>> => rendering.bracketed
    /\ renderer' = end_highlight(renderer)
    /\ rendering' = [rendering EXCEPT
                        !.highlights = IF @ = <<>> THEN @ ELSE Front(@),
                        !.bracketed = @ /\ rendering.highlights # <<>>]
    /\ UNCHANGED <<iter_vars, config_vars, call_vars>>

\* lines 1131-1133
RenderSource ==
    /\ rendering.status = "running"
    /\ \E src \in Lists(Bytes, MaxChunk) :
          /\ src # <<>>
          /\ Len(rendering.text) + Len(src) <= MaxText
          /\ renderer' = add_text(renderer, src, rendering.highlights)
          /\ rendering' = [rendering EXCEPT !.text = @ \o src]
    /\ UNCHANGED <<iter_vars, config_vars, call_vars>>

\* line 1134
RenderErr ==
    /\ rendering.status = "running"
    /\ rendering' = [rendering EXCEPT !.status = "err"]
    /\ UNCHANGED <<renderer, iter_vars, config_vars, call_vars>>

\* lines 1137-1146: the stream has ended
RenderFinish ==
    /\ rendering.status = "running"
    /\ LET taken == [renderer EXCEPT !.last_carriage_return = None]
           marked == IF renderer.last_carriage_return # None
                     THEN add_carriage_return(taken,
                                              Unwrap(renderer.last_carriage_return))
                     ELSE taken
           ended == IF marked.html = <<>> \/ Last(marked.html) # "\n"
                    THEN [marked EXCEPT !.html = Append(@, "\n")]
                    ELSE marked
       IN  renderer' = IF ended.line_offsets # <<>>
                          /\ Last(ended.line_offsets) = Len(ended.html)
                       THEN [ended EXCEPT !.line_offsets = Front(@)]
                       ELSE ended
    /\ rendering' = [rendering EXCEPT
                        !.status = "ok",
                        !.bracketed = @ /\ rendering.highlights = <<>>]
    /\ UNCHANGED <<iter_vars, config_vars, call_vars>>

----------------------------------------------------------------------------
(* injection_for_match applied to the matches of one injection pattern of  *)
(* a query under test.                                                     *)

\* the #set! properties an injection pattern may carry
PropertySet ==
    {[key |-> "injection.language", value |-> Some("lang")],
     [key |-> "injection.language", value |-> None],
     [key |-> "injection.self", value |-> None],
     [key |-> "injection.parent", value |-> None],
     [key |-> "injection.include-children", value |-> None]}

\* the capture names of the query under test, as pieces and as the query
\* reports them
InjectionQueryNames ==
    <<<<"injection", ".", "content">>, <<"injection", ".", "language">>>>

\* the configuration built from a query with one injection pattern
InjectionQueryConfig(settings) ==
    [language_name |-> "self", language_ok |-> TRUE,
     capture_names |-> <<"injection.content", "injection.language">>,
     patterns |-> << Pattern(<<1, 0>>, settings, FALSE) >>,
     locals_pattern_index |-> 1, highlights_pattern_index |-> 1,
     highlight_indices |-> <<None, None>>]

\* the captures a match of that pattern may hand over
MatchCaptureSet ==
    {[index |-> 0, node |-> <<0, 2>>], [index |-> 1, node |-> <<0, 1>>],
     [index |-> 1, node |-> <<1, 2>>]}

\* the sources matched: the second one is not UTF-8 at byte 1
MatchSources == {<<"a", "a">>, <<"a", "0xFF">>}

\* lines 1240-1302, for a match of pattern 0
InjectionForMatch ==
    /\ \E captures \in Lists(MatchCaptureSet, MaxMatchCaptures),
          parent_name \in {None, Some("parent")}, src \in MatchSources :
          answer' = [op |-> "injection_for_match", captures |-> captures,
                     parent_name |-> parent_name, src |-> src,
                     value |-> injection_for_match(InjectionQueryConfig(query.settings),
                                                   parent_name, 0, captures, src)]
    /\ UNCHANGED <<query, highlight_indices, iter_vars, render_vars, call_vars>>

----------------------------------------------------------------------------
(* intersect_ranges applied to the content nodes of one injection, found   *)
(* in a layer with the given ranges.                                       *)

\* the non-empty byte ranges of a source of IntersectSourceLen bytes
SourceRanges ==
    {r \in (0..IntersectSourceLen) \X (0..IntersectSourceLen) : r[1] < r[2]}

\* the lists of at most n ranges of S that follow one another
OrderedLists(S, n) ==
    {l \in Lists(S, n) : \A i \in 1..(Len(l) - 1) : End(l[i]) <= Start(l[i + 1])}

\* the ranges a layer can have: those of the root layer (line 300), or
\* disjoint ordered ranges computed for an injection
ParentRangeLists ==
    {<<<<0, USIZE_MAX>>>>} \cup (OrderedLists(SourceRanges, MaxParents) \ {<<>>})

\* a content node of a tree parsed with the given ranges, with its direct
\* children
ContentNodes(parent_ranges) ==
    LET inside == {n \in SourceRanges : NodeInRanges(n, parent_ranges)}
    IN  UNION {{[range |-> n, children |-> ch] :
                  ch \in OrderedLists({c \in inside : /\ Start(n) <= Start(c)
                                                      /\ End(c) <= End(n)},
                                      MaxChildren)} :
               n \in inside}

\* node b comes after node a in the tree: behind it, or inside one of its
\* direct children
Follows(a, b) ==
    \/ End(a.range) <= Start(b.range)
    \/ \E i \in DOMAIN a.children :
          /\ Start(a.children[i]) <= Start(b.range)
          /\ End(b.range) <= End(a.children[i])

\* the content nodes the matches of one pattern hand over: nodes of one
\* tree in document order
ContentNodeLists(parent_ranges) ==
    {l \in Lists(ContentNodes(parent_ranges), MaxNodes) :
        /\ l # <<>>
        /\ \A i \in DOMAIN l, j \in DOMAIN l : i < j => Follows(l[i], l[j])}

\* lines 642-725
IntersectRanges ==
    /\ arguments.op = "intersect_ranges"
    /\ answer' = [op |-> "intersect_ranges",
                  value |-> intersect_ranges(arguments.parent_ranges, arguments.nodes,
                                             arguments.includes_children)]
    /\ UNCHANGED <<arguments, query, highlight_indices, iter_vars, render_vars>>

----------------------------------------------------------------------------
(* HighlightConfiguration::new (lines 338-387): the sections of the query  *)
(* and the patterns of combined injections.  A query string is the         *)
(* sequence of its patterns, each one byte long behind `pad` bytes of      *)
(* white space, `combined` telling whether it sets injection.combined.     *)

QueryStrings == Lists([pad : 0..MaxPad, combined : BOOLEAN], MaxPatterns)

\* String::len
RECURSIVE str_len(_)
str_len(query_source) ==
    IF query_source = <<>> THEN 0
    ELSE Head(query_source).pad + 1 + str_len(Tail(query_source))

\* Query::new: the patterns of a query string in source order, the string
\* beginning at byte `offset`; every pattern is enabled
RECURSIVE Query_new(_, _)
Query_new(query_source, offset) ==
    IF query_source = <<>> THEN <<>>
    ELSE <<[start_byte |-> offset + Head(query_source).pad,
            combined |-> Head(query_source).combined,
            enabled |-> TRUE]>>
         \o Query_new(Tail(query_source), offset + Head(query_source).pad + 1)

disable_pattern(q, pattern_index) ==
    [i \in DOMAIN q |-> IF i = pattern_index + 1 THEN [q[i] EXCEPT !.enabled = FALSE]
                                                 ELSE q[i]]

\* faulty variant: a pattern that starts at a section's offset is counted
\* to the section before
RECURSIVE PatternIndexLoop_AtOrBefore(_, _, _, _, _, _)
PatternIndexLoop_AtOrBefore(q, i, locals_query_offset, highlights_query_offset, locals_pattern_index, highlights_pattern_index) ==
    IF i >= Len(q)
    THEN [locals_pattern_index |-> locals_pattern_index,
          highlights_pattern_index |-> highlights_pattern_index]
    ELSE LET pattern_offset == At(q, i).start_byte
         IN  PatternIndexLoop_AtOrBefore(q, i + 1, locals_query_offset, highlights_query_offset,
                IF pattern_offset <= highlights_query_offset
                   /\ pattern_offset <= locals_query_offset
                THEN locals_pattern_index + 1 ELSE locals_pattern_index,
                IF pattern_offset <= highlights_query_offset
                THEN highlights_pattern_index + 1 ELSE highlights_pattern_index)

\* lines 358-368
RECURSIVE PatternIndexLoop(_, _, _, _, _, _)
PatternIndexLoop(q, i, locals_query_offset, highlights_query_offset, locals_pattern_index, highlights_pattern_index) ==
    IF i >= Len(q)
    THEN [locals_pattern_index |-> locals_pattern_index,
          highlights_pattern_index |-> highlights_pattern_index]
    ELSE LET pattern_offset == At(q, i).start_byte
         IN  PatternIndexLoop(q, i + 1, locals_query_offset, highlights_query_offset,
                IF pattern_offset < highlights_query_offset
                   /\ pattern_offset < locals_query_offset
                THEN locals_pattern_index + 1 ELSE locals_pattern_index,
                IF pattern_offset < highlights_query_offset
                THEN highlights_pattern_index + 1 ELSE highlights_pattern_index)

\* faulty variant: the other patterns stay enabled in the combined query
RECURSIVE CombinedLoop_MainOnly(_, _, _, _, _)
CombinedLoop_MainOnly(q, combined_query, pattern_index, locals_pattern_index, has_combined_queries) ==
    IF pattern_index >= locals_pattern_index
    THEN [query |-> q, combined_injections_query |-> combined_query,
          has_combined_queries |-> has_combined_queries]
    ELSE IF At(q, pattern_index).combined
    THEN CombinedLoop_MainOnly(disable_pattern(q, pattern_index), combined_query,
                               pattern_index + 1, locals_pattern_index, TRUE)
    ELSE CombinedLoop_MainOnly(q, combined_query,
                               pattern_index + 1, locals_pattern_index, has_combined_queries)

\* lines 374-382
RECURSIVE CombinedLoop(_, _, _, _, _)
CombinedLoop(q, combined_query, pattern_index, locals_pattern_index, has_combined_queries) ==
    IF pattern_index >= locals_pattern_index
    THEN [query |-> q, combined_injections_query |-> combined_query,
          has_combined_queries |-> has_combined_queries]
    ELSE IF At(q, pattern_index).combined
    THEN CombinedLoop(disable_pattern(q, pattern_index), combined_query,
                      pattern_index + 1, locals_pattern_index, TRUE)
    ELSE CombinedLoop(q, disable_pattern(combined_query, pattern_index),
                      pattern_index + 1, locals_pattern_index, has_combined_queries)

\* lines 345-387
HighlightConfiguration_new(highlights_query, injection_query, locals_query) ==
    LET locals_query_offset == str_len(injection_query)
        highlights_query_offset == str_len(injection_query \o locals_query)
        q == Query_new(injection_query \o locals_query \o highlights_query, 0)
        index == PatternIndexLoop(q, 0, locals_query_offset, highlights_query_offset, 0, 0)
        loop == CombinedLoop(q, Query_new(injection_query, 0), 0,
                             index.locals_pattern_index, FALSE)
    IN  [query |-> loop.query,
         combined_injections_query |-> IF loop.has_combined_queries
                                       THEN Some(loop.combined_injections_query)
                                       ELSE None,
         locals_pattern_index |-> index.locals_pattern_index,
         highlights_pattern_index |-> index.highlights_pattern_index]

NewHighlightConfiguration ==
    /\ arguments.op = "new"
    /\ answer' = [op |-> "HighlightConfiguration::new",
                  value |-> HighlightConfiguration_new(arguments.highlights_query,
                                                       arguments.injection_query,
                                                       arguments.locals_query)]
    /\ UNCHANGED <<arguments, query, highlight_indices, iter_vars, render_vars>>

\* no function is called on its own
NoArguments == arguments = [op |-> "none"]

----------------------------------------------------------------------------
(* Highlighter::highlight (lines 283-320): the iterator as returned to the *)
(* caller, for a root configuration, a cancellation flag, a capture budget *)
(* and a source length.                                                    *)

highlight(config, flag, k, len) ==
    /\ source = [i \in 1..len |-> "a"]
    /\ language_name = config
    /\ cancellation_flag = flag
    /\ \E b \in new(source, None, 0, flag, config, 0, <<<<0, USIZE_MAX>>>>, k, 0) :
          /\ b.err = None
          /\ b.layers # <<>>
          /\ layers = sort_layers(b.layers, b.cursors).layers
          /\ cursors = sort_layers(b.layers, b.cursors).cursors
          /\ fuel = b.fuel
          /\ nlayers = b.nlayers
    /\ byte_offset = 0
    /\ iter_count = 0
    /\ next_event = None
    /\ last_highlight_range = None
    /\ returned = [type |-> "Created"]
    /\ pending = None
    /\ seen = [open |-> <<>>, unmatched_end |-> FALSE, last_at |-> 0, started |-> {},
               covered |-> 0, contiguous |-> TRUE]
    /\ calls = [finished |-> 0, set |-> FALSE, before_first |-> FALSE, since |-> 0,
                unbuffered |-> 0, cancelled |-> FALSE, errors |-> 0]
    /\ NoConfiguration
    /\ NoRenderer
    /\ NoArguments

\* no document is being highlighted
NoDocument ==
    /\ source = <<>>
    /\ language_name = ""
    /\ cancellation_flag = None
    /\ layers = <<>>
    /\ cursors = 0
    /\ fuel = 0
    /\ nlayers = 0
    /\ byte_offset = 0
    /\ iter_count = 0
    /\ next_event = None
    /\ last_highlight_range = None
    /\ returned = [type |-> "Created"]
    /\ pending = None
    /\ seen = [open |-> <<>>, unmatched_end |-> FALSE, last_at |-> 0, started |-> {},
               covered |-> 0, contiguous |-> TRUE]
    /\ calls = [finished |-> 0, set |-> FALSE, before_first |-> FALSE, since |-> 0,
                unbuffered |-> 0, cancelled |-> FALSE, errors |-> 0]

\* documents with injections, highlighted without a cancellation flag
Init == highlight("outer", None, MaxCaptures, SourceLen)

Next ==
    \/ TakeNextEvent
    \/ NoLayers
    \/ EndHighlight
    \/ Injection
    \/ Highlight

Spec == Init /\ [][Next]_vars

\* documents with local variables, highlighted without a cancellation flag
InitLocals == highlight("locals", None, LocalsMaxCaptures, LocalsSourceLen)

NextLocals ==
    \/ TakeNextEvent
    \/ NoLayers
    \/ EndHighlight
    \/ Highlight

SpecLocals == InitLocals /\ [][NextLocals]_vars

\* documents highlighted with a cancellation flag the caller may set
InitCancel == highlight("mixed", Some(0), MaxCapturesCancel, SourceLen)

NextCancel ==
    \/ TakeNextEvent
    \/ Cancelled
    \/ NoLayers
    \/ EndHighlight
    \/ Injection
    \/ Highlight
    \/ SetCancellationFlag

SpecCancel == InitCancel /\ [][NextCancel]_vars

\* documents whose injections name their language in the ways of "host"
InitInject == highlight("host", None, MaxCapturesInject, InjectSourceLen)

NextInject ==
    \/ TakeNextEvent
    \/ NoLayers
    \/ EndHighlight
    \/ Injection
    \/ Highlight

SpecInject == InitInject /\ [][NextInject]_vars

\* documents with local scopes, one behind the other
InitScopes == highlight("scopes", None, ScopesMaxCaptures, ScopesSourceLen)

NextScopes ==
    \/ TakeNextEvent
    \/ NoLayers
    \/ EndHighlight
    \/ Highlight

SpecScopes == InitScopes /\ [][NextScopes]_vars

\* documents with local scopes declared in every way
InitInherits == highlight("inherits", None, InheritsMaxCaptures, LocalsSourceLen)

NextInherits ==
    \/ TakeNextEvent
    \/ NoLayers
    \/ EndHighlight
    \/ Highlight

SpecInherits == InitInherits /\ [][NextInherits]_vars

\* documents with an injection and with captures that have no highlight
InitCounts == highlight("counts", None, CountsMaxCaptures, CountsSourceLen)

NextCounts ==
    \/ TakeNextEvent
    \/ NoLayers
    \/ EndHighlight
    \/ Injection
    \/ Highlight

SpecCounts == InitCounts /\ [][NextCounts]_vars

\* lines 884-890: the pass takes the front layer's next capture
CaptureDue ==
    /\ next_event = None
    /\ ~Polled
    /\ HasCapture

\* line 890: that capture belongs to a pattern of the injections query
InjectionDue ==
    /\ CaptureDue
    /\ Head(layers[1].captures).pattern_index
          < Config(layers[1].config).locals_pattern_index

\* the caller calls next() again and again: no pass that is possible is put
\* off for ever. For the passes that take a capture this is weak fairness
\* with the enabling condition written out: the pass is Injection when
\* InjectionDue and Highlight when a capture is due otherwise.
CallerKeepsCalling ==
    /\ WF_vars(TakeNextEvent)
    /\ WF_vars(NoLayers)
    /\ WF_vars(EndHighlight)
    /\ ([]<>(~InjectionDue) \/ []<><<Injection>>_vars)
    /\ ([]<>(~(CaptureDue /\ ~InjectionDue)) \/ []<><<Highlight>>_vars)

\* the same documents, read by a caller that calls next() until it returns None
SpecCountsFair == SpecCounts /\ CallerKeepsCalling

\* a configuration whose query has up to MaxNames capture names, configured
\* and inspected any number of times
InitConfigure ==
    /\ NoDocument
    /\ NoRenderer
    /\ NoArguments
    /\ \E names \in Lists(CaptureNameSet, MaxNames) :
          /\ names # <<>>
          /\ \A i \in DOMAIN names, j \in DOMAIN names : names[i] = names[j] => i = j
          /\ NewConfiguration(names, <<>>)

NextConfigure ==
    \/ Configure
    \/ NonconformantCaptureNames

SpecConfigure == InitConfigure /\ [][NextConfigure]_vars

\* a query with one injection pattern carrying up to MaxSettings properties
InitInjection ==
    /\ NoDocument
    /\ NoRenderer
    /\ NoArguments
    /\ \E settings \in Lists(PropertySet, MaxSettings) :
          NewConfiguration(InjectionQueryNames, settings)

NextInjection == InjectionForMatch

SpecInjection == InitInjection /\ [][NextInjection]_vars

\* one call of render() on a fresh renderer, with or without a
\* carriage-return highlight
InitRender ==
    /\ NoDocument
    /\ NoConfiguration
    /\ NoArguments
    /\ \E h \in {None, Some(0)} : renderer = HtmlRenderer(h)
    /\ rendering = NewRendering

NextRender ==
    \/ RenderHighlightStart
    \/ RenderHighlightEnd
    \/ RenderSource
    \/ RenderErr
    \/ RenderFinish

SpecRender == InitRender /\ [][NextRender]_vars

\* the ranges of one injection: the layer's ranges, the content nodes of the
\* injection and whether their children are included
InitIntersect ==
    /\ NoDocument
    /\ NoConfiguration
    /\ NoRenderer
    /\ \E parent_ranges \in ParentRangeLists, includes_children \in BOOLEAN :
       \E nodes \in ContentNodeLists(parent_ranges) :
          arguments = [op |-> "intersect_ranges", parent_ranges |-> parent_ranges,
                       nodes |-> nodes, includes_children |-> includes_children]

NextIntersect == IntersectRanges

SpecIntersect == InitIntersect /\ [][NextIntersect]_vars

\* HighlightConfiguration::new on its own: the three query strings
InitNew ==
    /\ NoDocument
    /\ NoConfiguration
    /\ NoRenderer
    /\ \E highlights_query \in QueryStrings, injection_query \in QueryStrings,
          locals_query \in QueryStrings :
          arguments = [op |-> "new", highlights_query |-> highlights_query,
                       injection_query |-> injection_query, locals_query |-> locals_query]

NextNew == NewHighlightConfiguration

SpecNew == InitNew /\ [][NextNew]_vars

\* HighlightIterLayer::new on one configuration, with or without a
\* cancellation flag, whatever the parser answers
NewLayer ==
    /\ arguments.op = "HighlightIterLayer::new"
    /\ answer' = [op |-> "HighlightIterLayer::new",
                  value |-> FirstLayer(arguments.config, arguments.cancellation_flag,
                                       arguments.ranges_ok, arguments.tree)]
    /\ UNCHANGED <<arguments, query, highlight_indices, iter_vars, render_vars>>

InitParse ==
    /\ NoDocument
    /\ NoConfiguration
    /\ NoRenderer
    /\ \E config \in ConfigNames, flag \in {None, Some(0), Some(1)},
          ranges_ok \in BOOLEAN, tree \in BOOLEAN :
          arguments = [op |-> "HighlightIterLayer::new", config |-> config,
                       cancellation_flag |-> flag, ranges_ok |-> ranges_ok,
                       tree |-> tree]

NextParse == NewLayer

SpecParse == InitParse /\ [][NextParse]_vars

----------------------------------------------------------------------------
(* Properties of the event stream.                                         *)

\* this step of next() hands the caller an item
Returns == cancellation_flag' = cancellation_flag /\ returned'.type # "Running"

\* this step of next() hands the caller an event of the given type
Delivers(type) ==
    /\ Returns
    /\ returned'.type = "Ok"
    /\ returned'.event.type = type

\* C1: in every prefix of the returned events there are at least as many
\* HighlightStart as HighlightEnd events (no HighlightEnd arrives while no
\* highlight is open), and when next() returns None without an error
\* before it, every highlight started has been ended.
C1_Balanced ==
    /\ ~seen.unmatched_end
    /\ (returned.type = "None" /\ calls.errors = 0 => seen.open = <<>>)

\* a document with two highlights, one inside the other, has been
\* delivered completely
C1_Witness ==
    /\ returned.type = "None"
    /\ seen.open = <<>>
    /\ \E a \in seen.started, b \in seen.started :
          a # b /\ Start(a[1]) <= Start(b[1]) /\ End(b[1]) <= End(a[1])

\* C2: the Source events come in order, each starting where the one before
\* ended and the first at 0, and when next() returns None without an error
\* before it, the last one ended at source.len().
C2_SourceCovered ==
    /\ seen.contiguous
    /\ (returned.type = "None" /\ calls.errors = 0 => seen.covered = Len(source))

\* a document delivered completely whose source came in several spans,
\* broken by a highlight that starts and one that ends inside the source
C2_Witness ==
    /\ returned.type = "None"
    /\ seen.covered = Len(source)
    /\ \E a \in seen.started : Start(a[1]) > 0
    /\ \E a \in seen.started : End(a[1]) < Len(source)

\* C3: the position of every event returned (a HighlightStart's node start,
\* a HighlightEnd's node end, a Source span's end) is at or after the
\* position of the event returned before it and at or after the end of the
\* last Source span.
C3_Monotone ==
    [][Returns /\ returned'.type = "Ok"
          => seen'.last_at >= seen.last_at /\ seen'.last_at >= seen.covered]_vars

\* C4: every HighlightEnd is returned at the end byte of the most recently
\* started highlight that is still open, and no two highlights started
\* partially overlap.
C4_ProperlyNested ==
    [][/\ Delivers("HighlightEnd")
          => seen.open # <<>> /\ seen'.last_at = End(Last(seen.open).range)
       /\ \A a \in seen'.started, b \in seen'.started : Laminar(a[1], b[1])]_vars

\* C5: no byte range is started as a highlight by two layers of different
\* depth.
C5_DeeperLayerWins ==
    \A a \in seen.started, b \in seen.started : a[1] = b[1] => a[2] = b[2]

----------------------------------------------------------------------------
(* Local variables: what a reference resolves to, stated on the scope      *)
(* stack alone.                                                            *)

\* the captures of the node the front layer is about to process
Run == layers[1].captures

RunNode == Capture(Head(Run)).node

\* the positions in the run of the captures with the given capture index
RunItems(index) ==
    {i \in DOMAIN Run : Some(Capture(Run[i]).index) = index}

\* the highlights of the highlight patterns that matched the node
RunHighlights ==
    {At(Config(layers[1].config).highlight_indices, Capture(Run[i]).index) :
        i \in {i \in DOMAIN Run :
                 Run[i].pattern_index >= Config(layers[1].config).highlights_pattern_index}}

\* the scopes that have not ended before the node starts
ScopesAt == PruneScopes(layers[1].scope_stack, Start(RunNode))

\* the definitions of scope i a reference to the node's name can see: same
\* name, and the reference starts at or after the end of the value
Visible(i) ==
    {j \in DOMAIN ScopesAt[i].local_defs :
        /\ ScopesAt[i].local_defs[j].name = Text(source, RunNode)
        /\ Start(RunNode) >= End(ScopesAt[i].local_defs[j].value_range)}

\* the definitions the node's name resolves to (at most one): the newest
\* visible one of the innermost scope that has any, no scope above it
\* being closed to inheriting
Binding ==
    {ScopesAt[i].local_defs[j] : <<i, j>> \in
        {<<i, j>> \in (DOMAIN ScopesAt) \X (1..LocalsMaxCaptures) :
            /\ j \in Visible(i)
            /\ \A k \in Visible(i) : k <= j
            /\ \A u \in (i + 1)..Len(ScopesAt) : ScopesAt[u].inherits /\ Visible(u) = {}}}

\* the front layer is about to process a node captured as local.reference,
\* and as no local.scope
ReferenceRun ==
    /\ next_event = None
    /\ HasCapture
    /\ Config(layers[1].config).locals_pattern_index <= Head(Run).pattern_index
    /\ RunItems(local_ref_capture_index(Config(layers[1].config))) # {}
    /\ RunItems(local_scope_capture_index(Config(layers[1].config))) = {}

\* the highlights of the HighlightStart events this step returns or buffers
Starts ==
    (IF Delivers("HighlightStart") THEN {returned'.event.highlight} ELSE {}) \cup
    (IF next_event' # None /\ Unwrap(next_event').type = "HighlightStart"
     THEN {Unwrap(next_event').highlight} ELSE {})

C7_NotInsideOwnValue ==
    [][ReferenceRun
          => \A h \in Starts :
                Some(h) \in RunHighlights \cup
                    {d.highlight : d \in
                        {d \in UNION {Range(ScopesAt[i].local_defs) : i \in DOMAIN ScopesAt} :
                            /\ d.name = Text(source, RunNode)
                            /\ Start(RunNode) >= End(d.value_range)}}]_vars

\* a reference inside the value of a same-named definition has been started
\* with a highlight that is not the definition's
C7_Witness ==
    /\ seen.open # <<>>
    /\ Last(seen.open).reference
    /\ \E l \in DOMAIN layers : \E i \in DOMAIN layers[l].scope_stack :
       \E j \in DOMAIN layers[l].scope_stack[i].local_defs :
          LET d == layers[l].scope_stack[i].local_defs[j]
          IN  /\ d.name = Text(source, Last(seen.open).range)
              /\ Start(Last(seen.open).range) < End(d.value_range)
              /\ d.highlight # None
              /\ d.highlight # Some(Last(seen.open).highlight)

----------------------------------------------------------------------------
(* Cancellation and errors.                                                *)

ErrCancelled == [type |-> "Err", error |-> "Cancelled"]

\* the front layer is about to process a capture of an injection pattern
InjectionRun ==
    /\ next_event = None
    /\ HasCapture
    /\ Head(Run).pattern_index < Config(layers[1].config).locals_pattern_index

\* C8 as stated: when the flag is set before the first call of next(), the
\* first call returns Err(Cancelled) and no call returns an Ok event.
C8_AsStated ==
    [][calls.before_first /\ Returns
          => /\ returned'.type # "Ok"
             /\ (calls.since = 0 => returned' = ErrCancelled)]_vars

\* C8: when the flag is set before the first call of next(), next() returns
\* Err(Cancelled) in the pass of its loop that brings iter_count to
\* CANCELLATION_CHECK_INTERVAL, the 100th pass beyond a buffered event, and
\* in no earlier pass, unless the parse of an injected layer is cancelled.
C8_CancelledOnHundredthPass ==
    [][calls.before_first /\ ~calls.cancelled /\ Returns /\ next_event = None
          => /\ iter_count + 1 >= CANCELLATION_CHECK_INTERVAL => returned' = ErrCancelled
             /\ returned' = ErrCancelled /\ ~InjectionRun
                   => iter_count + 1 = CANCELLATION_CHECK_INTERVAL]_vars

\* the flag was set before the first call, events were returned, and then
\* Err(Cancelled) by the poll of the flag
C8_Witness ==
    /\ calls.before_first
    /\ calls.cancelled
    /\ returned = ErrCancelled
    /\ iter_count = 0
    /\ seen.started # {}
    /\ calls.errors = 1
    /\ calls.since > CANCELLATION_CHECK_INTERVAL

\* C9: after next() has returned an Err item, every later call returns None.
C9_ErrorIsTerminal ==
    [][calls.errors > 0 /\ Returns => returned'.type = "None"]_vars

\* C10 as stated, for documents without another error: once the flag is
\* set, one of the next CANCELLATION_CHECK_INTERVAL calls of next() returns
\* Err(Cancelled).
C10_AsStated ==
    calls.set /\ calls.since >= CANCELLATION_CHECK_INTERVAL => calls.errors > 0

\* C10: once the flag is set, Err(Cancelled) is returned at the latest by the
\* CANCELLATION_CHECK_INTERVAL-th further call that does more than return the
\* event buffered by the call before it, so within twice as many calls.
C10_CancelledWithinInterval ==
    /\ calls.set /\ calls.unbuffered >= CANCELLATION_CHECK_INTERVAL => calls.cancelled
    /\ calls.set /\ calls.since >= 2 * CANCELLATION_CHECK_INTERVAL => calls.cancelled

\* the flag was set after a call, and Err(Cancelled) came with more than
\* CANCELLATION_CHECK_INTERVAL calls since
C10_Witness ==
    /\ calls.set
    /\ ~calls.before_first
    /\ returned = ErrCancelled
    /\ calls.errors = 1
    /\ calls.since > CANCELLATION_CHECK_INTERVAL
    /\ calls.unbuffered <= CANCELLATION_CHECK_INTERVAL

----------------------------------------------------------------------------
(* configure, nonconformant_capture_names and injection_for_match.         *)

\* every part of the recognized name occurs among the capture name's parts
Qualifies(capture_name, recognized_name) ==
    Range(split(recognized_name)) \subseteq Range(split(capture_name))

\* among the qualifying recognized names the one with the most parts, the
\* earliest of them on a tie, as Highlight(index); None if none qualifies
BestRecognized(capture_name, recognized_names) ==
    LET Q == {i \in DOMAIN recognized_names :
                Qualifies(capture_name, recognized_names[i])}
        parts(i) == Len(split(recognized_names[i]))
    IN  IF Q = {} THEN None
        ELSE Some((CHOOSE i \in Q :
                     \A j \in Q : parts(i) > parts(j) \/ (parts(i) = parts(j) /\ i <= j)) - 1)

\* C11: after configure(recognized_names) every capture name is mapped to
\* Highlight(i), i the index of the recognized name with the most parts among
\* those whose parts all occur among the capture name's parts (the earliest
\* on a tie), and to None when no recognized name qualifies; in particular
\* configure(["function", "function.builtin"]) maps function.method.builtin
\* to index 1.
C11_LongestMatchWins ==
    answer.op = "configure" =>
        /\ DOMAIN highlight_indices = DOMAIN query.capture_names
        /\ \A c \in DOMAIN query.capture_names :
              /\ highlight_indices[c] =
                    BestRecognized(query.capture_names[c], answer.recognized_names)
              /\ (/\ query.capture_names[c] = <<"function", ".", "method", ".", "builtin">>
                  /\ answer.recognized_names =
                        <<<<"function">>, <<"function", ".", "builtin">>>>)
                 => highlight_indices[c] = Some(1)

\* configure was called with two qualifying names of two parts each and a
\* capture name got the earlier one
C11_Witness ==
    /\ answer.op = "configure"
    /\ answer.recognized_names = <<<<"function", ".", "builtin">>,
                                   <<"builtin", ".", "function">>>>
    /\ query.capture_names = <<<<"function", ".", "method", ".", "builtin">>,
                               <<"method">>>>
    /\ highlight_indices = <<Some(0), None>>

\* C16: nonconformant_capture_names(known) returns exactly the capture
\* names of the configuration that do not start with "_" and are not in the
\* known set, the built-in standard names standing in for an empty known
\* set; each such name once, in the order of the query.
C16_Nonconformant ==
    answer.op = "nonconformant_capture_names" =>
        LET known == IF answer.capture_names = {} THEN STANDARD_CAPTURE_NAMES
                     ELSE answer.capture_names
            keep == {i \in DOMAIN query.capture_names :
                        /\ ~(Len(query.capture_names[i]) > 0
                             /\ query.capture_names[i][1] = "_")
                        /\ query.capture_names[i] \notin known}
        IN  /\ Range(answer.value) = {query.capture_names[i] : i \in keep}
            /\ Len(answer.value) = Cardinality(keep)
            /\ \A i \in DOMAIN answer.value, j \in DOMAIN answer.value :
                  i < j => \E a \in keep, b \in keep :
                              /\ a < b
                              /\ query.capture_names[a] = answer.value[i]
                              /\ query.capture_names[b] = answer.value[j]

\* with an empty known set, of a standard name and another name only the
\* other one was returned
C16_Witness ==
    /\ answer.op = "nonconformant_capture_names"
    /\ answer.capture_names = {}
    /\ \E n \in Range(query.capture_names) : n \in STANDARD_CAPTURE_NAMES
    /\ answer.value # <<>>
    /\ Len(answer.value) < Len(query.capture_names)

\* the name the match's last injection.language capture gives, if any
CapturedLanguage ==
    LET at == {i \in DOMAIN answer.captures : answer.captures[i].index = 1}
    IN  IF at = {} THEN None
        ELSE utf8_text(answer.src,
                       answer.captures[CHOOSE i \in at : \A j \in at : j <= i].node)

\* the name a property gives
PropertyName(prop) ==
    CASE prop.key = "injection.language" -> prop.value
      [] prop.key = "injection.self" -> Some("self")
      [] prop.key = "injection.parent" -> answer.parent_name
      [] OTHER -> None

\* the name of the first property, in pattern order, that gives one
FirstPropertyName ==
    LET giving == {i \in DOMAIN query.settings : PropertyName(query.settings[i]) # None}
    IN  IF giving = {} THEN None
        ELSE PropertyName(query.settings[CHOOSE i \in giving : \A j \in giving : i <= j])

\* C20: the language injection_for_match returns is the name read from the
\* injection.language capture if there is one, whatever the properties say;
\* otherwise the name of the first property in pattern order among
\* injection.language, injection.self and injection.parent that gives one
\* (None if none does); include_children is true iff the pattern sets
\* injection.include-children.
C20_CaptureBeforeProperties ==
    answer.op = "injection_for_match" =>
        /\ answer.value.language_name =
              IF CapturedLanguage # None THEN CapturedLanguage ELSE FirstPropertyName
        /\ answer.value.include_children =
              \E i \in DOMAIN query.settings :
                  query.settings[i].key = "injection.include-children"

\* a match with an injection.language capture of a pattern that also sets
\* injection.language and injection.self: the captured name was returned
C20_Witness ==
    /\ answer.op = "injection_for_match"
    /\ CapturedLanguage = Some("a")
    /\ query.settings = <<[key |-> "injection.self", value |-> None],
                          [key |-> "injection.language", value |-> Some("lang")]>>
    /\ answer.value.language_name = Some("a")
    /\ ~answer.value.include_children

----------------------------------------------------------------------------
(* Injections that are not used, and the language of injection.parent.     *)

\* the properties of the pattern of the capture the front layer is about
\* to process
RunSettings == property_settings(Config(layers[1].config), Head(Run).pattern_index)

HasKey(key) == \E i \in DOMAIN RunSettings : RunSettings[i].key = key

\* the names the pattern's injection.language properties give
PropertyLanguages ==
    {RunSettings[i].value : i \in {i \in DOMAIN RunSettings :
        RunSettings[i].key = "injection.language" /\ RunSettings[i].value # None}}

\* the match has a capture of the given index
RunCaptures(index) ==
    {c \in Range(Head(Run).captures) : Some(c.index) = index}

ContentAbsent ==
    RunCaptures(injection_content_capture_index(Config(layers[1].config))) = {}

LanguageCaptured ==
    RunCaptures(injection_language_capture_index(Config(layers[1].config))) # {}

\* neither a capture nor a property names a language
LanguageUnresolved ==
    /\ ~LanguageCaptured
    /\ PropertyLanguages = {}
    /\ ~HasKey("injection.self")
    /\ ~HasKey("injection.parent")

\* the one name the pattern gives is a name the injection callback answers
\* None to
CallbackNone ==
    /\ ~LanguageCaptured
    /\ ~HasKey("injection.self")
    /\ ~HasKey("injection.parent")
    /\ \E name \in PropertyLanguages :
          /\ PropertyLanguages = {name}
          /\ Callback(Unwrap(name), nlayers) = None

\* this step leaves the document as it is but for the capture taken: no
\* item is returned or buffered, no layer is built, and the layers that go
\* on are the ones there were
Skips ==
    /\ returned'.type = "Running"
    /\ seen' = seen
    /\ calls' = calls
    /\ next_event' = next_event
    /\ byte_offset' = byte_offset
    /\ nlayers' = nlayers
    /\ \A i \in DOMAIN layers' :
          \/ layers'[i] \in Range(Tail(layers))
          \/ /\ layers'[i].config = layers[1].config
             /\ layers'[i].depth = layers[1].depth
             /\ layers'[i].ranges = layers[1].ranges
             /\ layers'[i].highlight_end_stack = layers[1].highlight_end_stack
             /\ layers'[i].scope_stack = layers[1].scope_stack
             /\ Tail(Run) # <<>> => layers'[i].captures = Tail(Run)
    /\ \A j \in 2..Len(layers) :
          layers[j] \in Range(layers') \/ sort_key(layers[j]) = None

ParentOnly ==
    /\ HasKey("injection.parent")
    /\ ~LanguageCaptured
    /\ PropertyLanguages = {}
    /\ ~HasKey("injection.self")

\* C19: a match of the outermost (depth 0) layer whose language comes only
\* from injection.parent resolves to no language, so that processing it
\* builds no layer and the pass goes on.
C19_ParentOfLayer ==
    [][InjectionRun /\ ParentOnly /\ layers[1].depth = 0
       => nlayers' = nlayers /\ returned'.type = "Running"]_vars

----------------------------------------------------------------------------
(* The rendered HTML.                                                      *)

\* lines(): line i of the output (lines 1149-1162)
LineAt(i) ==
    SubSeq(renderer.html, renderer.line_offsets[i] + 1,
           IF i = Len(renderer.line_offsets) THEN Len(renderer.html)
           ELSE renderer.line_offsets[i + 1])

\* the spans of a line, read piece by piece from piece i: `open` the
\* attributes of the spans opened and not closed, ok unless a span is closed
\* that the line did not open
RECURSIVE Spans(_, _, _)
Spans(line, i, open) ==
    IF i > Len(line) THEN [ok |-> TRUE, open |-> open]
    ELSE CASE line[i] = ">" -> Spans(line, i + 1, Append(open, line[i - 1]))
           [] line[i] = "</span>" ->
                IF open = <<>> THEN [ok |-> FALSE, open |-> open]
                ELSE Spans(line, i + 1, Front(open))
           [] OTHER -> Spans(line, i + 1, open)

\* what the attribute callback writes for each of the highlights
Attributes(highlights) ==
    [i \in DOMAIN highlights |-> attribute_callback(highlights[i])[1]]

\* C13: while a well-bracketed stream is rendered, every line of the output
\* that has been ended by a newline has balanced span markup (the open
\* highlights were closed before the newline), and the line being written
\* has exactly the open highlights open, in their order (they were reopened
\* after the newline); once render has returned Ok every line is balanced.
C13_LinesBalanced ==
    rendering.status # "idle" /\ rendering.bracketed =>
        \A i \in DOMAIN renderer.line_offsets :
            LET spans == Spans(LineAt(i), 1, <<>>)
            IN  /\ spans.ok
                /\ IF i = Len(renderer.line_offsets) /\ rendering.status # "ok"
                   THEN spans.open = Attributes(rendering.highlights)
                   ELSE spans.open = <<>>

\* a newline has been rendered inside two nested highlights: they were closed
\* before it and reopened in the same order after it
C13_Witness ==
    /\ rendering.status = "running"
    /\ rendering.highlights = <<1, 2>>
    /\ rendering.text = <<"a", "\n">>
    /\ renderer.html = <<"<span ", "class='1'", ">", "<span ", "class='2'", ">", "a",
                         "</span>", "</span>", "\n",
                         "<span ", "class='1'", ">", "<span ", "class='2'", ">">>

\* the output without its span markup, an empty span being written "CR"
RECURSIVE Stripped(_)
Stripped(html) ==
    IF html = <<>> THEN <<>>
    ELSE CASE Head(html) \in {"<span ", ">", "</span>"} -> Stripped(Tail(html))
           [] Head(html) \in {attribute_callback(h)[1] : h \in {0} \cup Highlights} ->
                Stripped(Tail(html))
           [] Head(html) = "></span>" -> <<"CR">> \o Stripped(Tail(html))
           [] OTHER -> <<Head(html)>> \o Stripped(Tail(html))

\* the text as it is to be rendered, from byte i on: a carriage return
\* followed by a newline is left out, any other carriage return is "CR",
\* every other byte is itself or its escape
RECURSIVE Expected(_, _)
Expected(text, i) ==
    IF i > Len(text) THEN <<>>
    ELSE LET c == text[i]
         IN  (IF c = "\r"
              THEN IF i < Len(text) /\ text[i + 1] = "\n" THEN <<>> ELSE <<"CR">>
              ELSE IF html_escape(c) # None THEN Unwrap(html_escape(c)) ELSE <<c>>)
             \o Expected(text, i + 1)

\* s is e with some of its "CR" left out
RECURSIVE WithoutSomeMarks(_, _)
WithoutSomeMarks(s, e) ==
    IF e = <<>> THEN s = <<>>
    ELSE IF s # <<>> /\ Head(s) = Head(e) THEN WithoutSomeMarks(Tail(s), Tail(e))
         ELSE Head(e) = "CR" /\ WithoutSomeMarks(s, Tail(e))

\* the newline render() may add at the end
FinalNewline == IF rendering.status = "ok" THEN {<<>>, <<"\n">>} ELSE {<<>>}

\* C14: the output never holds a carriage return, and apart from empty
\* spans at carriage returns that no newline follows it is the escaped text
\* without its carriage returns: a carriage return followed by a newline, in
\* the same Source event or the next, gets no span.
C14_NoSpanBeforeNewline ==
    rendering.status # "idle" =>
        /\ "\r" \notin Range(renderer.html)
        /\ \E tail \in FinalNewline :
              WithoutSomeMarks(Stripped(renderer.html),
                               Expected(rendering.text, 1) \o tail)

\* with a carriage-return highlight configured, a carriage return at the end
\* of one Source event and a newline at the start of the next, a highlight
\* starting between them: no empty span in the output
C14_Witness ==
    /\ rendering.status = "ok"
    /\ renderer.carriage_return_highlight = Some(0)
    /\ rendering.text = <<"a", "\r", "\n">>
    /\ renderer.html = <<"a", "<span ", "class='1'", ">", "</span>", "\n",
                         "<span ", "class='1'", ">", "</span>", "\n">>

\* C15: with a carriage-return highlight configured, once render has
\* returned Ok the output has exactly one empty span at the place of every
\* carriage return that no newline follows, one followed by another carriage
\* return and one at the end of the input included.
C15_EveryLoneCarriageReturn ==
    rendering.status = "ok" /\ renderer.carriage_return_highlight # None =>
        \E tail \in FinalNewline :
            Stripped(renderer.html) = Expected(rendering.text, 1) \o tail

----------------------------------------------------------------------------
(* The order of the layers.                                                *)

\* C17: whenever next() is about to work on layers[0] (no event is
\* buffered), the first time right after highlight() included, layers[0] has
\* a pending boundary and no other layer has a smaller sort key.
C17_FrontIsEarliest ==
    next_event = None /\ layers # <<>> =>
        /\ sort_key(layers[1]) # None
        /\ \A i \in DOMAIN layers :
              sort_key(layers[i]) # None =>
                  ~KeyLess(Unwrap(sort_key(layers[i])), Unwrap(sort_key(layers[1])))

\* the byte offsets of the HighlightStart events this step makes (returns
\* at once, or buffers behind a Source event)
StartedAt ==
    (IF next_event = None /\ Delivers("HighlightStart") THEN {seen'.last_at} ELSE {}) \cup
    (IF /\ next_event = None
        /\ next_event' # None
        /\ Unwrap(next_event').type = "HighlightStart"
     THEN {Unwrap(pending').at} ELSE {})

----------------------------------------------------------------------------
(* The ranges of an injection.                                             *)

\* byte b lies in range r
InRange(b, r) == Start(r) <= b /\ b < End(r)

\* the bytes an injection is to be parsed from: in a range of the layer and
\* in a content node, outside the node's direct children unless they are
\* included
Wanted ==
    {b \in 0..(IntersectSourceLen - 1) :
        /\ \E i \in DOMAIN arguments.parent_ranges : InRange(b, arguments.parent_ranges[i])
        /\ \E i \in DOMAIN arguments.nodes :
              /\ InRange(b, arguments.nodes[i].range)
              /\ \/ arguments.includes_children
                 \/ \A j \in DOMAIN arguments.nodes[i].children :
                        ~InRange(b, arguments.nodes[i].children[j])}

\* the ends of the layer's ranges and of the content nodes
Boundaries ==
    UNION {{Start(arguments.parent_ranges[i]), End(arguments.parent_ranges[i])} :
             i \in DOMAIN arguments.parent_ranges}
    \cup UNION {{Start(arguments.nodes[i].range), End(arguments.nodes[i].range)} :
                  i \in DOMAIN arguments.nodes}

\* C21: for disjoint ordered parent ranges and content nodes in document
\* order, intersect_ranges returns non-empty ranges, in ascending order and
\* pairwise disjoint, that cover exactly the bytes lying in a parent range
\* and in a content node (outside the node's direct children unless
\* include_children is true); no returned range runs across the end of a
\* parent range or of a content node (touching ranges are not merged).
C21_IntersectedRanges ==
    answer.op = "intersect_ranges" =>
        LET result == answer.value
        IN  /\ \A i \in DOMAIN result : Start(result[i]) < End(result[i])
            /\ \A i \in DOMAIN result, j \in DOMAIN result :
                  i < j => End(result[i]) <= Start(result[j])
            /\ {b \in 0..(IntersectSourceLen - 1) :
                    \E i \in DOMAIN result : InRange(b, result[i])} = Wanted
            /\ \A i \in DOMAIN result : \A x \in Boundaries :
                  ~(Start(result[i]) < x /\ x < End(result[i]))

----------------------------------------------------------------------------
(* Local scopes.                                                           *)

\* the front layer is about to process a node captured as local.scope
ScopeRun ==
    /\ next_event = None
    /\ HasCapture
    /\ Config(layers[1].config).locals_pattern_index <= Head(Run).pattern_index
    /\ RunItems(local_scope_capture_index(Config(layers[1].config))) # {}

\* the pattern sets local.scope-inherits to the literal value "false"
SetsInheritsFalse(pattern_index) ==
    \E i \in DOMAIN property_settings(Config(layers[1].config), pattern_index) :
        property_settings(Config(layers[1].config), pattern_index)[i]
            = [key |-> "local.scope-inherits", value |-> Some("false")]

\* C22: the scope pushed for a local.scope capture has inherits = false if
\* and only if its pattern sets local.scope-inherits to the literal value
\* "false"; with any other value, without a value and without the property
\* it has inherits = true.
C22_InheritsUnlessFalse ==
    [][ScopeRun /\ layers' # <<>>
          => \A i \in RunItems(local_scope_capture_index(Config(layers[1].config))) :
                LET k == Cardinality({j \in RunItems(local_scope_capture_index(
                                                        Config(layers[1].config))) : j <= i})
                IN  layers'[1].scope_stack[Len(ScopesAt) + k].inherits
                        = ~SetsInheritsFalse(Run[i].pattern_index)]_vars

CaptureRun ==
    /\ next_event = None
    /\ HasCapture
    /\ Config(layers[1].config).locals_pattern_index <= Head(Run).pattern_index

\* the highlights of the same-named eligible definitions made in scopes
\* that have not ended before the node starts
LiveDefinitionHighlights ==
    {d.highlight : d \in
        {d \in UNION {Range(layers[1].scope_stack[i].local_defs) :
                        i \in {i \in DOMAIN layers[1].scope_stack :
                                 End(layers[1].scope_stack[i].range) >= Start(RunNode)}} :
            /\ d.name = Text(source, RunNode)
            /\ Start(RunNode) >= End(d.value_range)}}

\* C24: when a capture of a local-variable or highlight pattern starting at
\* byte s has been handled, no scope on the layer's scope_stack has
\* range.end < s; and a node captured as local.reference is never started
\* with the highlight of a definition made in a scope that ended before
\* the node starts.
C24_EndedScopesPruned ==
    [][/\ CaptureRun /\ layers' # <<>>
          => \A i \in DOMAIN layers'[1].scope_stack :
                End(layers'[1].scope_stack[i].range) >= Start(RunNode)
       /\ ReferenceRun
          => \A h \in Starts : Some(h) \in RunHighlights \cup LiveDefinitionHighlights]_vars

----------------------------------------------------------------------------
(* Several highlight patterns on one node.                                 *)

\* the positions in the run of the captures of highlight patterns
HighlightItems ==
    {i \in DOMAIN Run :
        Run[i].pattern_index >= Config(layers[1].config).highlights_pattern_index}

\* the node is handled as a local definition: it is captured as
\* local.definition, and as no local.scope after that
DefinitionNode ==
    \E i \in RunItems(local_def_capture_index(Config(layers[1].config))) :
        \A j \in RunItems(local_scope_capture_index(Config(layers[1].config))) : j < i

\* the highlight captures the rule for local variables leaves: the first
\* one, and every following one unless the node is a local definition and
\* the pattern is disabled for local variables
NotSkipped ==
    {i \in HighlightItems :
        \/ \A j \in HighlightItems : i <= j
        \/ ~(DefinitionNode
              /\ At(non_local_variable_patterns(Config(layers[1].config)),
                    Run[i].pattern_index))}

\* the highlight of the capture with the highest pattern index among them
LastHighlight ==
    LET i == CHOOSE i \in NotSkipped :
                \A j \in NotSkipped : Run[j].pattern_index <= Run[i].pattern_index
    IN  At(Config(layers[1].config).highlight_indices, Capture(Run[i]).index)

\* the front layer is about to process a node captured by highlight
\* patterns whose name, if it is captured as local.reference, resolves to
\* no definition
HighlightRun ==
    /\ CaptureRun
    /\ HighlightItems # {}
    /\ \/ RunItems(local_ref_capture_index(Config(layers[1].config))) = {}
       \/ Binding = {}

----------------------------------------------------------------------------
(* Highlight patterns disabled for local variables.                        *)

\* the highlights of the highlight patterns on the node that are not
\* flagged non_local_variable
LocalVariableHighlights ==
    {At(Config(layers[1].config).highlight_indices, Capture(Run[i]).index) :
        i \in {i \in HighlightItems :
                 ~At(non_local_variable_patterns(Config(layers[1].config)),
                     Run[i].pattern_index)}}

\* the node is a reference (and neither a definition nor a scope) whose
\* name resolves to a definition
ResolvedReference ==
    /\ RunItems(local_ref_capture_index(Config(layers[1].config))) # {}
    /\ RunItems(local_def_capture_index(Config(layers[1].config))) = {}
    /\ RunItems(local_scope_capture_index(Config(layers[1].config))) = {}
    /\ Binding # {}

\* the definition the pass made for the node: the newest one of the
\* innermost scope
StoredDefinition ==
    Last(Last(layers'[1].scope_stack).local_defs)

\* C26: a highlight pattern flagged non_local_variable never supplies the
\* highlight stored on a node handled as a local definition, nor the one
\* such a node or a resolved local reference is started with, wherever the
\* pattern stands among the highlight patterns that matched the node.
C26_NonLocalSuppressed ==
    [][CaptureRun /\ HighlightItems # {}
          => /\ DefinitionNode /\ layers' # <<>>
                => StoredDefinition.highlight \in LocalVariableHighlights \cup {None}
             /\ DefinitionNode \/ ResolvedReference
                => \A h \in Starts :
                      Some(h) \in LocalVariableHighlights
                                    \cup {d.highlight : d \in Binding}]_vars

----------------------------------------------------------------------------
(* The sections of a configuration's query.                                *)

\* the index of the first pattern of the query that starts at or after
\* byte `offset`, the pattern count if there is none
FirstPatternFrom(offset) ==
    LET q == answer.value.query
        from == {i \in 0..(Len(q) - 1) : At(q, i).start_byte >= offset}
    IN  IF from = {} THEN Len(q) ELSE CHOOSE i \in from : \A j \in from : i <= j

\* C27: HighlightConfiguration::new sets locals_pattern_index to the index
\* of the first pattern that starts at or after the offset of the locals
\* section and highlights_pattern_index to that of the first pattern that
\* starts at or after the offset of the highlights section (the pattern
\* count if there is none); locals_pattern_index <= highlights_pattern_index
\* <= pattern_count, and the patterns below locals_pattern_index are those
\* of the injections string, those from it up to highlights_pattern_index
\* those of the locals string, the others those of the highlights string.
C27_SectionIndices ==
    answer.op = "HighlightConfiguration::new" =>
        LET value == answer.value
            injections == Len(arguments.injection_query)
            locals == Len(arguments.locals_query)
        IN  /\ value.locals_pattern_index
                    = FirstPatternFrom(str_len(arguments.injection_query))
            /\ value.highlights_pattern_index
                    = FirstPatternFrom(str_len(arguments.injection_query)
                                       + str_len(arguments.locals_query))
            /\ value.locals_pattern_index <= value.highlights_pattern_index
            /\ value.highlights_pattern_index <= Len(value.query)
            /\ value.locals_pattern_index = injections
            /\ value.highlights_pattern_index = injections + locals

\* a configuration has been made from three strings with patterns, the
\* locals and the highlights section each beginning with a pattern at its
\* very offset
C27_Witness ==
    /\ answer.op = "HighlightConfiguration::new"
    /\ 0 < answer.value.locals_pattern_index
    /\ answer.value.locals_pattern_index < answer.value.highlights_pattern_index
    /\ answer.value.highlights_pattern_index < Len(answer.value.query)
    /\ At(answer.value.query, answer.value.locals_pattern_index).start_byte
            = str_len(arguments.injection_query)
    /\ At(answer.value.query, answer.value.highlights_pattern_index).start_byte
            = str_len(arguments.injection_query) + str_len(arguments.locals_query)

\* C28: every injection pattern is enabled in exactly one of the two
\* queries: one that sets injection.combined is disabled in the main query
\* and enabled in the combined-injections query, every other one is enabled
\* in the main query and disabled in the combined-injections query; the
\* combined-injections query exists if and only if some injection pattern
\* sets injection.combined.
C28_CombinedInExactlyOneQuery ==
    answer.op = "HighlightConfiguration::new" =>
        LET value == answer.value
            injections == 0..(Len(arguments.injection_query) - 1)
            combined == {p \in injections : At(arguments.injection_query, p).combined}
        IN  /\ (value.combined_injections_query # None) = (combined # {})
            /\ \A p \in injections :
                  /\ At(value.query, p).enabled = (p \notin combined)
                  /\ value.combined_injections_query # None
                        => At(Unwrap(value.combined_injections_query), p).enabled
                                = (p \in combined)

\* a configuration has been made whose injections string holds a pattern
\* that sets injection.combined and one that does not
C28_Witness ==
    /\ answer.op = "HighlightConfiguration::new"
    /\ answer.value.combined_injections_query # None
    /\ \E p \in DOMAIN arguments.injection_query, r \in DOMAIN arguments.injection_query :
          /\ arguments.injection_query[p].combined
          /\ ~arguments.injection_query[r].combined
          /\ ~answer.value.query[p].enabled
          /\ answer.value.query[r].enabled

----------------------------------------------------------------------------
(* The pool of query cursors.                                              *)

\* the layers this step built
LayersBuilt == nlayers' - nlayers

\* the layers this step took off the layer list or did not let onto it
LayersDropped == Len(layers) + LayersBuilt - Len(layers')

\* the pool after `taken` cursors were popped from it, a new cursor being
\* made whenever it is empty (line 575)
PoolAfter(pool, taken) == IF pool > taken THEN pool - taken ELSE 0

\* C29: the query cursor of every layer that is removed from the layer list
\* for want of boundaries (by sort_layers or by insert_layer), or refused by
\* insert_layer for the same reason, is pushed onto the Highlighter's
\* cursor pool: a step that returns no error leaves in the pool what it
\* did not take for the layers it built plus one cursor for every layer it
\* dropped.
C29_CursorsReturned ==
    [][returned'.type # "Err"
          => cursors' = PoolAfter(cursors, LayersBuilt) + LayersDropped]_vars

----------------------------------------------------------------------------
(* The stack of pending highlight ends.                                    *)

\* the offsets of a stack are non-decreasing in the order they were pushed
NonDecreasing(stack) ==
    \A i \in DOMAIN stack, j \in DOMAIN stack : i < j => stack[i] <= stack[j]

\* the offsets of a stack are non-decreasing in the order they will be popped
NonDecreasingFromTop(stack) ==
    \A i \in DOMAIN stack, j \in DOMAIN stack : i < j => stack[j] <= stack[i]

\* C30: in every reachable state the highlight_end_stack of every layer
\* holds a non-decreasing sequence of byte offsets, whether the stack is
\* read from the bottom (the order of the pushes) or from the top (the
\* order in which the highlights are to close).
C30_EndStackNonDecreasing ==
    \A l \in DOMAIN layers :
        \/ NonDecreasing(layers[l].highlight_end_stack)
        \/ NonDecreasingFromTop(layers[l].highlight_end_stack)

\* C31: in every reachable state the top entry of every layer's
\* highlight_end_stack is <= every other entry of that stack, so that the
\* offsets popped from one layer never go back.
C31_TopIsSmallest ==
    \A l \in DOMAIN layers :
        \A i \in DOMAIN layers[l].highlight_end_stack :
            Last(layers[l].highlight_end_stack) <= layers[l].highlight_end_stack[i]

----------------------------------------------------------------------------
(* Starts, ends and the stacks of pending ends.                            *)

RECURSIVE PendingEnds(_)
PendingEnds(ls) ==
    IF ls = <<>> THEN 0 ELSE Len(Head(ls).highlight_end_stack) + PendingEnds(Tail(ls))

\* HighlightStart events minus HighlightEnd events, returned or buffered
OpenHighlights ==
    Len(seen.open)
    + (IF next_event = None THEN 0
       ELSE IF Unwrap(next_event).type = "HighlightStart" THEN 1
       ELSE IF Unwrap(next_event).type = "HighlightEnd" THEN 0 - 1
       ELSE 0)

\* the front layer is about to process a node whose highlight patterns
\* give it no highlight
UnnamedRun ==
    /\ CaptureRun
    /\ HighlightItems # {}
    /\ RunItems(local_ref_capture_index(Config(layers[1].config))) = {}
    /\ LastHighlight = None

\* C32: after every step (and before the first one, when nothing has been
\* returned and every stack is empty) the number of HighlightStart events
\* returned or buffered minus the number of HighlightEnd events returned or
\* buffered is the total length of the highlight_end_stacks of the layers
\* in the list, no HighlightEnd having been returned with no highlight
\* open (so a layer leaves the list only with an empty stack); and a pass
\* over a node whose effective highlight is None pushes nothing and emits
\* no HighlightStart.
C32_StartsMinusEnds ==
    [][/\ OpenHighlights' = PendingEnds(layers')
       /\ ~seen'.unmatched_end
       /\ UnnamedRun => PendingEnds(layers') = PendingEnds(layers) /\ Starts = {}]_vars

\* a layer has left the list, another one has a highlight open, and a
\* HighlightEnd is buffered behind the Source event just returned
C32_Witness ==
    /\ nlayers > Len(layers)
    /\ layers # <<>>
    /\ next_event = Some(HighlightEnd)
    /\ PendingEnds(layers) >= 1
    /\ Len(seen.open) = PendingEnds(layers) + 1

----------------------------------------------------------------------------
(* The end of the stream.                                                  *)

\* a pass gets to the front layer (line 859)
FrontLayerPass == Pass /\ layers # <<>>

\* C33: next() returns None only when no layer is left and byte_offset >=
\* source.len(); the front layer of every pass has a pending capture or a
\* pending highlight end, and the fallback emit_event(source.len(), None)
\* of line 881 is not reached while a layer still has one.
C33_NoneOnlyAtTheEnd ==
    [][/\ Returns /\ returned'.type = "None"
          => layers' = <<>> /\ byte_offset' >= Len(source)
       /\ FrontLayerPass => sort_key(layers[1]) # None
       /\ FrontLayerPass /\ sort_key(layers[1]) = None
          => \A l \in DOMAIN layers : sort_key(layers[l]) = None]_vars

----------------------------------------------------------------------------
(* The bottom of the scope stack.                                          *)

\* C34: the scope_stack of every layer is never empty; its bottom entry is
\* the global scope 0..usize::MAX with inherits = false, which pruning
\* never pops.
C34_GlobalScopeStays ==
    \A l \in DOMAIN layers :
        /\ layers[l].scope_stack # <<>>
        /\ layers[l].scope_stack[1].range = <<0, USIZE_MAX>>
        /\ ~layers[l].scope_stack[1].inherits

\* a capture starting at byte 2 has been handled, behind a definition made
\* in the global scope, and the scope of that capture lies right on the
\* global scope: every scope that ended before byte 2 is gone
C34_Witness ==
    /\ layers # <<>>
    /\ Len(layers[1].scope_stack) = 2
    /\ layers[1].scope_stack[1].local_defs # <<>>
    /\ layers[1].scope_stack[2].range = <<2, 3>>
    /\ byte_offset = 2
    /\ seen.started # {}

----------------------------------------------------------------------------
(* Termination of the event stream.                                        *)

\* next() has returned None
Done == returned.type = "None"

\* after a None nothing is left to do: no layer, no buffered event, no
\* source text that has not been emitted
Exhausted ==
    /\ layers = <<>>
    /\ next_event = None
    /\ byte_offset >= Len(source)

\* C35: with no cancellation flag, on a document with finitely many
\* captures and layers, a caller that keeps calling next() eventually gets
\* None, and from then on every call returns None (nothing is left that a
\* later call could return).
C35_EventuallyNone ==
    /\ <>Done
    /\ [](Done => Exhausted /\ []Done)

\* None has been returned after highlights of a document with an injected
\* layer, with no error on the way
C35_Witness ==
    /\ Done
    /\ cancellation_flag = None
    /\ nlayers > 1
    /\ seen.started # {}
    /\ calls.errors = 0

----------------------------------------------------------------------------
(* The errors of HighlightIterLayer::new.                                  *)

\* HighlightIterLayer::new has answered
LayerAnswered == answer.op = "HighlightIterLayer::new"

\* C36: the error of HighlightIterLayer::new is never Unknown: it is
\* InvalidLanguage exactly when set_language failed, and Cancelled exactly
\* when the language was set and the parser returned no tree, with a
\* cancellation flag set, with one unset and with none.
C36_OnlyTwoErrors ==
    LayerAnswered =>
        LET err == answer.value.err
            reached == arguments.ranges_ok
            language_ok == Config(arguments.config).language_ok
        IN  /\ err \in {None, Some("InvalidLanguage"), Some("Cancelled")}
            /\ err = Some("InvalidLanguage") <=> reached /\ ~language_ok
            /\ err = Some("Cancelled") <=> reached /\ language_ok /\ ~arguments.tree

\* the parser returned no tree although no cancellation flag was supplied,
\* and new() answered Cancelled
C36_Witness ==
    /\ LayerAnswered
    /\ arguments.cancellation_flag = None
    /\ arguments.ranges_ok
    /\ ~arguments.tree
    /\ answer.value.err = Some("Cancelled")

----------------------------------------------------------------------------
(* configure() called again and again.                                     *)

\* C37: highlight_indices always has one entry per capture name of the
\* query; before the first configure() every entry is None; after a
\* configure() it is what that call alone produces from the capture names,
\* whatever the calls before left there, and a call with the names of the
\* call before changes nothing.
C37_LastConfigureWins ==
    [][/\ Len(highlight_indices') = Len(query'.capture_names)
       /\ (answer.op = "new" => \A c \in DOMAIN highlight_indices : highlight_indices[c] = None)
       /\ (answer'.op = "configure" =>
             highlight_indices' = configure(query'.capture_names, answer'.recognized_names))
       /\ (answer.op = "configure" /\ answer'.op = "configure"
             /\ answer'.recognized_names = answer.recognized_names =>
             highlight_indices' = highlight_indices)]_vars

\* a configure() that found a highlight in the vector, recognized names and
\* left None in every entry
C37_Witness ==
    /\ answer.op = "configure"
    /\ answer.found
    /\ answer.recognized_names # <<>>
    /\ highlight_indices # <<>>
    /\ \A c \in DOMAIN highlight_indices : highlight_indices[c] = None

====
